---- MODULE Spec2Model ----
(***************************************************************************)
(* Model of the conformer reconciliation core of smu/parser/smu_utils_lib. *)
(*                                                                         *)
(* A Conformer protobuf message is a record.  Message-typed fields that    *)
(* have presence (properties, optimized_geometry, the FloatScalar wrappers)*)
(* carry an explicit "has" flag; reading an absent field yields the        *)
(* protobuf default (0, empty sequence), as the Python API does.           *)
(* Floating point values are fixed-point integers in units of 1e-6, so     *)
(* -1.0 is -1000000, atol=2e-6 is 2 and atol=1e-6 is 1; the arithmetic is  *)
(* exact (no rounding of the float subtraction is modelled).               *)
(***************************************************************************)
EXTENDS Integers, Sequences, FiniteSets, TLC

VARIABLES
  recs,    \* the conformer objects the calls operate on (mutable)
  inputs,  \* the same objects as they were handed in (never changes)
  pc,      \* "input" before a call, then the name of the call that ran
  ret      \* what the call returned or raised

vars == <<recs, inputs, pc, ret>>

(***************************************************************************)
(* Bounds of the model.                                                    *)
(***************************************************************************)
MaxCalcStats == 3   \* calculation_statistics entries per record: 0..MaxCalcStats
MaxDupOf == 1       \* length of duplicate_of of an input record
MaxGeoms == 2       \* initial_geometries entries of an input record
MaxTopos == 2       \* bond_topologies entries of an input record
MaxDelta == 3       \* stage-2 numeric values range over base .. base+MaxDelta (1e-6 units)
MaxSummaryTopos == 3  \* bond_topologies entries of a finalized record: 0..MaxSummaryTopos

(***************************************************************************)
(* Program constants.                                                      *)
(***************************************************************************)
SpecialId == 795795001      \* the one id allowed to carry error_frequencies 101
SentinelValue == -1000000   \* -1.0 in 1e-6 units
EnergyAtol == 2             \* atol=2e-6
GradientAtol == 1           \* atol=1e-6
Stage1NumStats == 2         \* stage 1 has timings for two computation steps

NoneVal == <<>>

Max(x, y) == IF x >= y THEN x ELSE y
Abs(x) == IF x >= 0 THEN x ELSE -x
\* Python's // on integers: floor division (\div floors for a positive divisor).
FloorDiv(x, y) == x \div y

SeqsUpTo(S, n) == UNION {[1..k -> S] : k \in 0..n}
Range(s) == {s[i] : i \in DOMAIN s}

(***************************************************************************)
(* Messages.                                                               *)
(***************************************************************************)
FloatScalar(v) == [has |-> TRUE, value |-> v]
NoFloat == [has |-> FALSE, value |-> 0]

STAGE1_ERROR_FIELDS == <<"error_nstat1", "error_nstatc", "error_nstatt", "error_frequencies">>

\* properties.errors left unset: has is the presence of the message itself,
\* every scalar reads as 0.
DefaultErrors ==
  [has |-> FALSE,
   status |-> 0, error_nstat1 |-> 0, error_nstatc |-> 0, error_nstatt |-> 0,
   error_frequencies |-> 0,
   warn_t1 |-> 0, warn_t1_excess |-> 0, warn_bse_b5_b6 |-> 0, warn_bse_cccsd_b5 |-> 0,
   warn_exc_lowest_excitation |-> 0, warn_exc_smallest_oscillator |-> 0,
   warn_exc_largest_oscillator |-> 0, warn_vib_linearity |-> 0, warn_vib_imaginary |-> 0]

DefaultProperties ==
  [calculation_statistics |-> 0,
   errors |-> DefaultErrors,
   initial_geometry_energy |-> NoFloat,
   initial_geometry_gradient_norm |-> NoFloat,
   optimized_geometry_energy |-> NoFloat,
   optimized_geometry_gradient_norm |-> NoFloat,
   harmonic_frequencies |-> <<>>]

BondTopology(id, b) == [bond_topology_id |-> id, bonds |-> b, is_starting_topology |-> FALSE]

\* codes is <<error_nstat1, error_nstatc, error_frequencies, error_nstatt>>,
\* nums is <<initial energy, initial gradient norm, optimized energy,
\* optimized gradient norm>>; ncalc < 0 builds a record without properties.
Conformer(id, ncalc, dby, dof, geoms, topos, opt, codes, nums, st, freqs, db) ==
  [conformer_id |-> id,
   original_conformer_index |-> 0,
   duplicated_by |-> dby,
   duplicate_of |-> dof,
   initial_geometries |-> geoms,
   has_optimized_geometry |-> opt,
   bond_topologies |-> topos,
   which_database |-> IF ncalc < 0 THEN "UNSPECIFIED" ELSE db,
   fate |-> "FATE_UNDEFINED",
   has_properties |-> ncalc >= 0,
   properties |->
     IF ncalc < 0 THEN DefaultProperties
     ELSE [calculation_statistics |-> ncalc,
           errors |-> [DefaultErrors EXCEPT
                         !.has = TRUE, !.status = st,
                         !.error_nstat1 = codes[1], !.error_nstatc = codes[2],
                         !.error_nstatt = codes[4], !.error_frequencies = codes[3]],
           initial_geometry_energy |-> nums[1],
           initial_geometry_gradient_norm |-> nums[2],
           optimized_geometry_energy |-> nums[3],
           optimized_geometry_gradient_norm |-> nums[4],
           harmonic_frequencies |-> freqs]]

(***************************************************************************)
(* _conformer_source                                                       *)
(***************************************************************************)
SourceValue(s) == CASE s = "DUPLICATE" -> 0 [] s = "STAGE1" -> 1 [] s = "STAGE2" -> 2

\* Variant: any record with at least two timings taken for stage 1.
conformer_source_no_count(conf) ==
  IF ~conf.has_properties
  THEN IF conf.duplicated_by = 0 /\ conf.duplicate_of = <<>> THEN "ValueError" ELSE "DUPLICATE"
  ELSE IF conf.properties.calculation_statistics >= Stage1NumStats THEN "STAGE1" ELSE "STAGE2"

\* Lines 772-783; "ValueError" stands for the raise of line 776.
conformer_source(conf) ==
  IF ~conf.has_properties
  THEN IF conf.duplicated_by = 0 /\ conf.duplicate_of = <<>> THEN "ValueError" ELSE "DUPLICATE"
  ELSE IF conf.properties.calculation_statistics = Stage1NumStats THEN "STAGE1" ELSE "STAGE2"

(***************************************************************************)
(* merge_conformer                                                         *)
(***************************************************************************)
\* Variant: duplicate_of treated as a singular field (overwritten, not appended).
MergeFromOverwrite(conf1, conf2) ==
  [conf1 EXCEPT
     !.conformer_id = IF conf2.conformer_id # 0 THEN conf2.conformer_id ELSE @,
     !.duplicated_by = IF conf2.duplicated_by # 0 THEN conf2.duplicated_by ELSE @,
     !.duplicate_of = IF conf2.duplicate_of # <<>> THEN conf2.duplicate_of ELSE @,
     !.initial_geometries = @ \o conf2.initial_geometries,
     !.bond_topologies = @ \o conf2.bond_topologies,
     !.has_optimized_geometry = @ \/ conf2.has_optimized_geometry,
     !.which_database = IF conf2.which_database # "UNSPECIFIED" THEN conf2.which_database ELSE @,
     !.fate = IF conf2.fate # "FATE_UNDEFINED" THEN conf2.fate ELSE @,
     !.original_conformer_index =
        IF conf2.original_conformer_index # 0 THEN conf2.original_conformer_index ELSE @]

\* Line 860, conf1.MergeFrom(conf2) of protobuf (proto3), on the modelled
\* fields: a singular scalar of conf2 overwrites when it is not the default,
\* repeated fields are appended, a singular message is present when either
\* has it.  It is only called for two DUPLICATE records, which have no
\* properties.
MergeFrom(conf1, conf2) ==
  [conf1 EXCEPT
     !.conformer_id = IF conf2.conformer_id # 0 THEN conf2.conformer_id ELSE @,
     !.duplicated_by = IF conf2.duplicated_by # 0 THEN conf2.duplicated_by ELSE @,
     !.duplicate_of = @ \o conf2.duplicate_of,
     !.initial_geometries = @ \o conf2.initial_geometries,
     !.bond_topologies = @ \o conf2.bond_topologies,
     !.has_optimized_geometry = @ \/ conf2.has_optimized_geometry,
     !.which_database = IF conf2.which_database # "UNSPECIFIED" THEN conf2.which_database ELSE @,
     !.fate = IF conf2.fate # "FATE_UNDEFINED" THEN conf2.fate ELSE @,
     !.original_conformer_index =
        IF conf2.original_conformer_index # 0 THEN conf2.original_conformer_index ELSE @]

\* Variant: bond topologies compared by id alone.
CardinalityErrorLax(conf1, conf2) ==
  \/ Len(conf1.initial_geometries) > 1
  \/ Len(conf2.initial_geometries) > 1
  \/ Len(conf1.bond_topologies) > 1
  \/ Len(conf2.bond_topologies) > 1
  \/ /\ conf1.bond_topologies # <<>>
     /\ conf2.bond_topologies # <<>>
     /\ conf1.bond_topologies[1].bond_topology_id # conf2.bond_topologies[1].bond_topology_id

\* Lines 867-886: TRUE when one of the five raises is taken.
CardinalityError(conf1, conf2) ==
  \/ Len(conf1.initial_geometries) > 1
  \/ Len(conf2.initial_geometries) > 1
  \/ Len(conf1.bond_topologies) > 1
  \/ Len(conf2.bond_topologies) > 1
  \/ /\ conf1.bond_topologies # <<>>
     /\ conf2.bond_topologies # <<>>
     /\ conf1.bond_topologies[1] # conf2.bond_topologies[1]

\* Lines 890-901, in the order of MERGE_CONFLICT_FIELDS.
ConflictInfoOf(c) ==
  <<c.properties.initial_geometry_energy.value,
    c.properties.initial_geometry_gradient_norm.value,
    c.properties.optimized_geometry_energy.value,
    c.properties.optimized_geometry_gradient_norm.value,
    c.initial_geometries # <<>>,
    c.has_optimized_geometry>>

ConflictInfo(conf1, conf2) ==
  <<conf1.conformer_id,
    conf1.properties.errors.error_nstat1,
    conf1.properties.errors.error_nstatc,
    conf1.properties.errors.error_frequencies,
    conf1.properties.errors.error_nstatt>>
  \o ConflictInfoOf(conf1) \o ConflictInfoOf(conf2)

\* Lines 907-914.
StructuralConflict(conf1, conf2) ==
  \/ Len(conf1.bond_topologies) # 1
  \/ Len(conf2.bond_topologies) # 1
  \/ Len(conf1.initial_geometries) # Len(conf2.initial_geometries)
  \/ conf1.has_optimized_geometry # conf2.has_optimized_geometry

\* Lines 916-920.
CopyStage1ErrorFields(conf1, conf2) ==
  [conf2 EXCEPT
     !.properties.errors.has = TRUE,
     !.properties.errors.error_nstat1 = conf1.properties.errors.error_nstat1,
     !.properties.errors.error_nstatc = conf1.properties.errors.error_nstatc,
     !.properties.errors.error_nstatt = conf1.properties.errors.error_nstatt,
     !.properties.errors.error_frequencies = conf1.properties.errors.error_frequencies]

\* np.isclose(val1, val2, atol=atol, rtol=rtol): |val1 - val2| <= atol + rtol * |val2|,
\* with rtol given in units of 1e-6.
IsCloseRtol(val1, val2, atol, rtol) ==
  Abs(val1 - val2) <= atol + (rtol * Abs(val2)) \div 1000000

\* Variants: numpy's default rtol=1e-5 left in place; exact equality.
IsCloseDefaultRtol(val1, val2, atol) == IsCloseRtol(val1, val2, atol, 10)

IsCloseExact(val1, val2, atol) == val1 = val2

\* Line 935: rtol=0.
IsClose(val1, val2, atol) == IsCloseRtol(val1, val2, atol, 0)

\* Lines 928-936 for one field.
FieldConflict(val1, val2, atol) ==
  val2 # SentinelValue /\ ~IsClose(val1, val2, atol)

\* Lines 922-936.
NumericConflict(conf1, conf2) ==
  \/ FieldConflict(conf1.properties.initial_geometry_energy.value,
                   conf2.properties.initial_geometry_energy.value, EnergyAtol)
  \/ FieldConflict(conf1.properties.initial_geometry_gradient_norm.value,
                   conf2.properties.initial_geometry_gradient_norm.value, GradientAtol)
  \/ FieldConflict(conf1.properties.optimized_geometry_energy.value,
                   conf2.properties.optimized_geometry_energy.value, EnergyAtol)
  \/ FieldConflict(conf1.properties.optimized_geometry_gradient_norm.value,
                   conf2.properties.optimized_geometry_gradient_norm.value, GradientAtol)

AllowedErrorCodes ==
  {<<1, 1, 1, 1>>, <<3, 1, 1, 1>>, <<2, 3, 2, 1>>, <<5, 1, 3, 1>>, <<1, 1, 101, 1>>}

ErrorCodes(conf) ==
  <<conf.properties.errors.error_nstat1, conf.properties.errors.error_nstatc,
    conf.properties.errors.error_frequencies, conf.properties.errors.error_nstatt>>

\* Variant: the id is not looked at when error_frequencies is 101.
ErrorCodesConflictWhitelistOnly(conf1, conf2) ==
  IF conf1.properties.errors.error_frequencies = 101
  THEN FALSE
  ELSE ErrorCodes(conf1) \notin AllowedErrorCodes

\* Lines 940-951.
ErrorCodesConflict(conf1, conf2) ==
  IF conf1.properties.errors.error_frequencies = 101
  THEN conf2.conformer_id # SpecialId
  ELSE ErrorCodes(conf1) \notin AllowedErrorCodes

\* Variant: the gradient norm is not taken over.
TakeStage1InitialEnergyOnly(conf1, conf2) ==
  [conf2 EXCEPT
     !.properties.initial_geometry_energy =
        FloatScalar(conf1.properties.initial_geometry_energy.value)]

\* Lines 955-958: the two .value assignments (they make the fields present).
TakeStage1InitialValues(conf1, conf2) ==
  [conf2 EXCEPT
     !.properties.initial_geometry_energy =
        FloatScalar(conf1.properties.initial_geometry_energy.value),
     !.properties.initial_geometry_gradient_norm =
        FloatScalar(conf1.properties.initial_geometry_gradient_norm.value)]

\* Line 959: conf2.initial_geometries[0].CopyFrom(conf1.initial_geometries[0]);
\* either subscript raises IndexError on an empty list.
InitialGeometryIndexError(conf1, conf2) ==
  conf2.initial_geometries = <<>> \/ conf1.initial_geometries = <<>>

CopyInitialGeometry(conf1, conf2) ==
  [conf2 EXCEPT !.initial_geometries[1] = conf1.initial_geometries[1]]

\* Line 962.
NeedsStage1Data(conf2) ==
  conf2.properties.errors.status = 800 \/ conf2.properties.errors.status = 700

\* Lines 971-974: the level, or the field's value when it is left alone.
WarnVibImaginary(conf2) ==
  IF \E i \in DOMAIN conf2.properties.harmonic_frequencies :
       conf2.properties.harmonic_frequencies[i] < -30
  THEN 2
  ELSE IF \E i \in DOMAIN conf2.properties.harmonic_frequencies :
            conf2.properties.harmonic_frequencies[i] < 0
       THEN 1
       ELSE conf2.properties.errors.warn_vib_imaginary

\* Variant: the status is computed from the stage-1 object's own status.
RebaseOnStage1OwnStatus(conf1, conf2) ==
  [conf2 EXCEPT
     !.properties.errors.has = TRUE,
     !.properties.errors.status = 500 + FloorDiv(conf2.properties.errors.status, 10),
     !.which_database = "COMPLETE",
     !.properties.errors.warn_vib_imaginary = WarnVibImaginary(conf2)]

\* Lines 968-974, after the flip of line 965: conf1 is the stage-2 object and
\* conf2 the stage-1 object.
RebaseOnStage1(conf1, conf2) ==
  [conf2 EXCEPT
     !.properties.errors.has = TRUE,
     !.properties.errors.status = 500 + FloorDiv(conf1.properties.errors.status, 10),
     !.which_database = "COMPLETE",
     !.properties.errors.warn_vib_imaginary = WarnVibImaginary(conf2)]

\* Lines 977-978.
IncompatibleDuplicatedBy(conf1, conf2) ==
  /\ conf1.duplicated_by # 0
  /\ conf2.duplicated_by # 0
  /\ conf1.duplicated_by # conf2.duplicated_by

\* Lines 982-983.
MoveDuplicateInfo(conf1, conf2) ==
  [conf2 EXCEPT
     !.duplicated_by = Max(conf1.duplicated_by, conf2.duplicated_by),
     !.duplicate_of = @ \o conf1.duplicate_of]

\* What a call of merge_conformer(first, second) leaves behind: raised is ""
\* for a normal return, else the exception; first and second are the two
\* argument objects after the call; returned is 1 or 2, the argument object
\* that is returned (0 when the call raised); conflict is the second element
\* of the returned pair.
MergeOutcome(raised, first, second, returned, conflict) ==
  [raised |-> raised, first |-> first, second |-> second,
   returned |-> returned, conflict |-> conflict]

\* Lines 905-974 for conf1 of STAGE1 and conf2 of STAGE2.  The result holds
\* the local names conf1 and conf2 as they are bound afterwards.
Stage1Stage2(conf1, conf2) ==
  LET has_conflict == \/ StructuralConflict(conf1, conf2)
                      \/ NumericConflict(conf1, conf2)
                      \/ ErrorCodesConflict(conf1, conf2)
      copied == TakeStage1InitialValues(conf1, CopyStage1ErrorFields(conf1, conf2))
  IN  IF InitialGeometryIndexError(conf1, copied)
      THEN [raised |-> "IndexError", conf1 |-> conf1, conf2 |-> copied,
            has_conflict |-> has_conflict, flipped |-> FALSE]
      ELSE LET taken == CopyInitialGeometry(conf1, copied)
           IN  IF NeedsStage1Data(taken)
               THEN [raised |-> "", conf1 |-> taken, conf2 |-> RebaseOnStage1(taken, conf1),
                     has_conflict |-> has_conflict, flipped |-> TRUE]
               ELSE [raised |-> "", conf1 |-> conf1, conf2 |-> taken,
                     has_conflict |-> has_conflict, flipped |-> FALSE]

\* Lines 867-988, for conf1 and conf2 already ordered by source (swapped says
\* whether line 864 exchanged the arguments).
MergeOrdered(conf1, conf2, source1, source2, swapped) ==
  LET Out(raised, c1, c2, c1_is_first, conflict) ==
        MergeOutcome(raised,
                     IF c1_is_first THEN c1 ELSE c2,
                     IF c1_is_first THEN c2 ELSE c1,
                     IF raised # "" THEN 0 ELSE IF c1_is_first THEN 2 ELSE 1,
                     conflict)
  IN  IF CardinalityError(conf1, conf2)
      THEN Out("ValueError", conf1, conf2, ~swapped, NoneVal)
      ELSE
        LET conflict_info == ConflictInfo(conf1, conf2)
            m == IF source1 = "STAGE1" /\ source2 = "STAGE2"
                 THEN Stage1Stage2(conf1, conf2)
                 ELSE [raised |-> "", conf1 |-> conf1, conf2 |-> conf2,
                       has_conflict |-> FALSE, flipped |-> FALSE]
            c1_is_first == (swapped = m.flipped)
        IN  IF m.raised # ""
            THEN Out(m.raised, m.conf1, m.conf2, c1_is_first, NoneVal)
            ELSE IF IncompatibleDuplicatedBy(m.conf1, m.conf2)
            THEN Out("ValueError", m.conf1, m.conf2, c1_is_first, NoneVal)
            ELSE Out("", m.conf1, MoveDuplicateInfo(m.conf1, m.conf2), c1_is_first,
                     IF m.has_conflict THEN conflict_info ELSE NoneVal)

\* Lines 856-861.
SameSource(conf1, conf2, source1) ==
  IF source1 = "STAGE1" \/ source1 = "STAGE2"
  THEN MergeOutcome("ValueError", conf1, conf2, 0, NoneVal)
  ELSE MergeOutcome("", MergeFrom(conf1, conf2), conf2, 1, NoneVal)

\* Variant: the arguments are taken in the order given.
merge_conformer_as_given(conf1, conf2) ==
  LET source1 == conformer_source(conf1)
      source2 == conformer_source(conf2)
  IN  IF source1 = "ValueError" \/ source2 = "ValueError"
      THEN MergeOutcome("ValueError", conf1, conf2, 0, NoneVal)
      ELSE IF source1 = source2
      THEN SameSource(conf1, conf2, source1)
      ELSE MergeOrdered(conf1, conf2, source1, source2, FALSE)

\* Lines 853-865, then MergeOrdered.
merge_conformer(conf1, conf2) ==
  LET source1 == conformer_source(conf1)
      source2 == conformer_source(conf2)
  IN  IF source1 = "ValueError" \/ source2 = "ValueError"
      THEN MergeOutcome("ValueError", conf1, conf2, 0, NoneVal)
      ELSE IF source1 = source2
      THEN SameSource(conf1, conf2, source1)
      ELSE IF SourceValue(source2) < SourceValue(source1)
      THEN MergeOrdered(conf2, conf1, source2, source1, TRUE)
      ELSE MergeOrdered(conf1, conf2, source1, source2, FALSE)

(***************************************************************************)
(* clean_up_error_codes and clean_up_sentinel_values                       *)
(***************************************************************************)
\* An assignment to properties.errors.status (it makes errors present).
SetStatus(conformer, status) ==
  [conformer EXCEPT !.properties.errors.has = TRUE,
                    !.properties.errors.status = status]

\* Lines 1141-1145.
ClearOptimizationResults(conformer) ==
  [conformer EXCEPT
     !.properties.initial_geometry_energy = NoFloat,
     !.properties.initial_geometry_gradient_norm = NoFloat,
     !.properties.optimized_geometry_energy = NoFloat,
     !.properties.optimized_geometry_gradient_norm = NoFloat,
     !.has_optimized_geometry = FALSE]

\* Variant: a status that is already set is recomputed from the legacy codes.
CleanUpStage1Recompute(conformer) ==
  LET errors == conformer.properties.errors
  IN  IF errors.error_nstat1 = 1 \/ errors.error_nstat1 = 3
      THEN IF conformer.duplicated_by # 0 THEN SetStatus(conformer, -1) ELSE conformer
      ELSE IF errors.error_nstat1 = 5
      THEN SetStatus(conformer, 590)
      ELSE IF errors.error_nstat1 = 2
      THEN ClearOptimizationResults(SetStatus(conformer, 600))
      ELSE conformer

\* Lines 1124-1148, the STAGE1 branch.
CleanUpStage1(conformer) ==
  LET errors == conformer.properties.errors
  IN  IF errors.status # 0
      THEN conformer
      ELSE IF errors.error_nstat1 = 1 \/ errors.error_nstat1 = 3
      THEN IF conformer.duplicated_by # 0 THEN SetStatus(conformer, -1) ELSE conformer
      ELSE IF errors.error_nstat1 = 5
      THEN SetStatus(conformer, 590)
      ELSE IF errors.error_nstat1 = 2
      THEN ClearOptimizationResults(SetStatus(conformer, 600))
      ELSE conformer

\* Variant: nothing is cleared.
ClearStage1ErrorFieldsNot(conformer) == conformer

\* Variant: error_frequencies is kept.
ClearStage1ErrorFieldsButFrequencies(conformer) ==
  [conformer EXCEPT
     !.properties.errors =
        [f \in DOMAIN @ |-> IF f \in Range(STAGE1_ERROR_FIELDS) \ {"error_frequencies"}
                            THEN 0 ELSE @[f]]]

\* Lines 1155-1156: ClearField of each of STAGE1_ERROR_FIELDS (only reached
\* for a record that has properties; the presence of errors is left as it is).
ClearStage1ErrorFields(conformer) ==
  [conformer EXCEPT
     !.properties.errors =
        [f \in DOMAIN @ |-> IF f \in Range(STAGE1_ERROR_FIELDS) THEN 0 ELSE @[f]]]

\* Lines 1110-1156; raised is "ValueError" for the raise of line 1152 and for
\* the one _conformer_source itself makes.
clean_up_error_codes(conformer) ==
  LET source == conformer_source(conformer)
  IN  IF source = "ValueError"
      THEN [raised |-> "ValueError", conformer |-> conformer]
      ELSE IF source = "STAGE1"
      THEN [raised |-> "", conformer |-> ClearStage1ErrorFields(CleanUpStage1(conformer))]
      ELSE IF source = "STAGE2"
      THEN [raised |-> "", conformer |-> ClearStage1ErrorFields(conformer)]
      ELSE [raised |-> "ValueError", conformer |-> conformer]

\* Lines 1159-1164.
SENTINEL_VALUE_FIELDS ==
  <<"initial_geometry_energy", "initial_geometry_gradient_norm",
    "optimized_geometry_energy", "optimized_geometry_gradient_norm">>

\* Variant: every negative value is taken for the sentinel.
clean_up_sentinel_values_negative(conformer) ==
  [conformer EXCEPT
     !.properties =
        [f \in DOMAIN @ |-> IF f \in Range(SENTINEL_VALUE_FIELDS) /\ @[f].value < 0
                            THEN NoFloat ELSE @[f]]]

\* Lines 1167-1177.  Reading a field of a record without properties yields
\* 0.0 and sets nothing.
clean_up_sentinel_values(conformer) ==
  [conformer EXCEPT
     !.properties =
        [f \in DOMAIN @ |-> IF f \in Range(SENTINEL_VALUE_FIELDS) /\ @[f].value = SentinelValue
                            THEN NoFloat ELSE @[f]]]

(***************************************************************************)
(* conformer_calculation_error_level and determine_fate                    *)
(***************************************************************************)
\* Lines 1012-1019.
Stage1ErrorLevel(errors) ==
  IF errors.error_nstat1 # 1 /\ errors.error_nstat1 # 3
  THEN 5
  ELSE IF errors.error_nstatc # 1 \/ errors.error_nstatt # 1 \/ errors.error_frequencies # 1
       THEN 5
       ELSE 0

\* Lines 1030-1034.
SeriousWarning(errors) ==
  \/ errors.warn_t1 > 1
  \/ errors.warn_t1_excess > 1
  \/ errors.warn_bse_b5_b6 > 1
  \/ errors.warn_bse_cccsd_b5 > 1
  \/ errors.warn_exc_lowest_excitation > 1
  \/ errors.warn_exc_smallest_oscillator > 0
  \/ errors.warn_exc_largest_oscillator > 0

\* Line 1038.
VibrationalWarning(errors) ==
  errors.warn_vib_linearity > 0 \/ errors.warn_vib_imaginary > 1

\* Variant: every warning counts from level 1 on.
Stage2ErrorLevelAnyWarning(errors) ==
  IF errors.status >= 64 THEN 5
  ELSE IF errors.status >= 8 THEN 4
  ELSE IF errors.status >= 4 THEN 3
  ELSE IF \/ errors.warn_t1 > 0
          \/ errors.warn_t1_excess > 0
          \/ errors.warn_bse_b5_b6 > 0
          \/ errors.warn_bse_cccsd_b5 > 0
          \/ errors.warn_exc_lowest_excitation > 0
          \/ errors.warn_exc_smallest_oscillator > 0
          \/ errors.warn_exc_largest_oscillator > 0 THEN 2
  ELSE IF errors.warn_vib_linearity > 0 \/ errors.warn_vib_imaginary > 0 THEN 1
  ELSE 0

\* Lines 1022-1041.
Stage2ErrorLevel(errors) ==
  IF errors.status >= 64 THEN 5
  ELSE IF errors.status >= 8 THEN 4
  ELSE IF errors.status >= 4 THEN 3
  ELSE IF SeriousWarning(errors) THEN 2
  ELSE IF VibrationalWarning(errors) THEN 1
  ELSE 0

\* Lines 991-1041.  Every source other than STAGE1 takes the stage-2 rules
\* (line 1011 tests for STAGE1 only); level is -1 when the call raised.
conformer_calculation_error_level(conformer) ==
  LET source == conformer_source(conformer)
      errors == conformer.properties.errors
  IN  IF source = "ValueError"
      THEN [raised |-> "ValueError", level |-> -1]
      ELSE IF source = "STAGE1"
      THEN [raised |-> "", level |-> Stage1ErrorLevel(errors)]
      ELSE [raised |-> "", level |-> Stage2ErrorLevel(errors)]

\* Variant: the duplicate link is looked at only when no status is set.
Stage1FateStatusFirst(conformer) ==
  LET status == conformer.properties.errors.status
  IN  IF status = 600 THEN "FATE_GEOMETRY_OPTIMIZATION_PROBLEM"
      ELSE IF status = 590 THEN "FATE_DISASSOCIATED"
      ELSE IF status = 570 \/ status = 580 THEN "FATE_DISCARDED_OTHER"
      ELSE IF conformer.duplicated_by > 0
      THEN IF FloorDiv(conformer.conformer_id, 1000) = FloorDiv(conformer.duplicated_by, 1000)
           THEN "FATE_DUPLICATE_SAME_TOPOLOGY"
           ELSE "FATE_DUPLICATE_DIFFERENT_TOPOLOGY"
      ELSE "FATE_NO_CALCULATION_RESULTS"

\* Lines 1333-1348.
Stage1Fate(conformer) ==
  IF conformer.duplicated_by > 0
  THEN LET this_btid == FloorDiv(conformer.conformer_id, 1000)
           other_btid == FloorDiv(conformer.duplicated_by, 1000)
       IN  IF this_btid = other_btid
           THEN "FATE_DUPLICATE_SAME_TOPOLOGY"
           ELSE "FATE_DUPLICATE_DIFFERENT_TOPOLOGY"
  ELSE LET status == conformer.properties.errors.status
       IN  IF status = 600 THEN "FATE_GEOMETRY_OPTIMIZATION_PROBLEM"
           ELSE IF status = 590 THEN "FATE_DISASSOCIATED"
           ELSE IF status = 570 \/ status = 580 THEN "FATE_DISCARDED_OTHER"
           ELSE "FATE_NO_CALCULATION_RESULTS"

\* Lines 1355-1368; the last branch is the raise of "Bad error_level".
Stage2Fate(error_level) ==
  IF error_level = 5 THEN [raised |-> "", fate |-> "FATE_CALCULATION_WITH_SERIOUS_ERROR"]
  ELSE IF error_level = 4 THEN [raised |-> "", fate |-> "FATE_CALCULATION_WITH_MAJOR_ERROR"]
  ELSE IF error_level = 3 THEN [raised |-> "", fate |-> "FATE_CALCULATION_WITH_MODERATE_ERROR"]
  ELSE IF error_level = 2 THEN [raised |-> "", fate |-> "FATE_CALCULATION_WITH_WARNING_SERIOUS"]
  ELSE IF error_level = 1 THEN [raised |-> "", fate |-> "FATE_CALCULATION_WITH_WARNING_VIBRATIONAL"]
  ELSE IF error_level = 0 THEN [raised |-> "", fate |-> "FATE_SUCCESS"]
  ELSE [raised |-> "ValueError", fate |-> ""]

\* Variant: a record without properties is an unknown source.
determine_fate_without_duplicates(conformer) ==
  LET source == conformer_source(conformer)
  IN  IF source = "ValueError" THEN [raised |-> "ValueError", fate |-> ""]
      ELSE IF source = "STAGE1" THEN [raised |-> "", fate |-> Stage1Fate(conformer)]
      ELSE IF source = "STAGE2"
      THEN Stage2Fate(conformer_calculation_error_level(conformer).level)
      ELSE [raised |-> "ValueError", fate |-> ""]

\* Variant: a duplicate link decides the fate of a stage-2 record too.
determine_fate_duplicate_first(conformer) ==
  LET source == conformer_source(conformer)
  IN  IF source = "ValueError" THEN [raised |-> "ValueError", fate |-> ""]
      ELSE IF source = "DUPLICATE" THEN [raised |-> "", fate |-> "FATE_UNDEFINED"]
      ELSE IF source = "STAGE1" \/ conformer.duplicated_by > 0
      THEN [raised |-> "", fate |-> Stage1Fate(conformer)]
      ELSE Stage2Fate(conformer_calculation_error_level(conformer).level)

\* Lines 1317-1371.
determine_fate(conformer) ==
  LET source == conformer_source(conformer)
  IN  IF source = "ValueError" THEN [raised |-> "ValueError", fate |-> ""]
      ELSE IF source = "DUPLICATE" THEN [raised |-> "", fate |-> "FATE_UNDEFINED"]
      ELSE IF source = "STAGE1" THEN [raised |-> "", fate |-> Stage1Fate(conformer)]
      ELSE IF source = "STAGE2"
      THEN Stage2Fate(conformer_calculation_error_level(conformer).level)
      ELSE [raised |-> "ValueError", fate |-> ""]

(***************************************************************************)
(* filter_conformer_by_availability, should_include_in_standard and        *)
(* conformer_to_standard                                                   *)
(***************************************************************************)
\* conformer.properties.ListFields(): the populated fields, that is the
\* message fields that are present and the repeated fields that are not
\* empty.
ListFields(properties) ==
  {f \in DOMAIN properties :
     IF f = "calculation_statistics" THEN properties[f] > 0
     ELSE IF f = "harmonic_frequencies" THEN properties[f] # <<>>
     ELSE properties[f].has}

\* Variant: the fields whose tag is allowed are the ones cleared.
filter_conformer_by_availability_inverted(conformer, allowed, availability) ==
  [conformer EXCEPT
     !.original_conformer_index = IF "INTERNAL_ONLY" \notin allowed THEN 0 ELSE @,
     !.properties =
        [f \in DOMAIN @ |-> IF f \in ListFields(@) /\ availability[f] \in allowed
                            THEN DefaultProperties[f] ELSE @[f]]]

\* Lines 1044-1060.  availability[f] is the tag the descriptor of properties
\* field f carries, descriptor.GetOptions().Extensions[dataset_pb2.availability];
\* allowed is taken as a set, only membership is asked of it.
filter_conformer_by_availability(conformer, allowed, availability) ==
  [conformer EXCEPT
     !.original_conformer_index = IF "INTERNAL_ONLY" \notin allowed THEN 0 ELSE @,
     !.properties =
        [f \in DOMAIN @ |-> IF f \in ListFields(@) /\ availability[f] \notin allowed
                            THEN DefaultProperties[f] ELSE @[f]]]

\* Variant: the duplicate link is not looked at for a record with a tier.
should_include_in_standard_tier_first(conformer) ==
  IF conformer.which_database = "COMPLETE" THEN [raised |-> "", include |-> FALSE]
  ELSE IF conformer.which_database = "STANDARD" THEN [raised |-> "", include |-> TRUE]
  ELSE IF conformer.duplicated_by > 0 THEN [raised |-> "", include |-> FALSE]
  ELSE LET level == conformer_calculation_error_level(conformer)
       IN  IF level.raised # "" THEN [raised |-> level.raised, include |-> FALSE]
           ELSE [raised |-> "", include |-> ~(level.level > 0)]

\* Lines 1063-1083; the call raises when the error level cannot be computed.
should_include_in_standard(conformer) ==
  IF conformer.duplicated_by > 0 THEN [raised |-> "", include |-> FALSE]
  ELSE IF conformer.which_database = "COMPLETE" THEN [raised |-> "", include |-> FALSE]
  ELSE IF conformer.which_database = "STANDARD" THEN [raised |-> "", include |-> TRUE]
  ELSE LET level == conformer_calculation_error_level(conformer)
       IN  IF level.raised # "" THEN [raised |-> level.raised, include |-> FALSE]
           ELSE [raised |-> "", include |-> ~(level.level > 0)]

\* Lines 1086-1107; is_none says that None is returned.
conformer_to_standard(conformer, availability) ==
  LET include == should_include_in_standard(conformer)
  IN  IF include.raised # ""
      THEN [raised |-> include.raised, conformer |-> conformer, is_none |-> FALSE]
      ELSE IF ~include.include
      THEN [raised |-> "", conformer |-> conformer, is_none |-> TRUE]
      ELSE [raised |-> "",
            conformer |-> filter_conformer_by_availability(conformer, {"STANDARD"},
                                                           availability),
            is_none |-> FALSE]

(***************************************************************************)
(* get_starting_bond_topology_index, conformer_to_bond_topology_summaries  *)
(* and conformer_eligible_for_topology_detection                           *)
(***************************************************************************)
\* Variant: the last flagged topology is taken.
get_starting_bond_topology_index_last(conformer) ==
  LET flagged == {i \in DOMAIN conformer.bond_topologies :
                    conformer.bond_topologies[i].is_starting_topology}
  IN  IF Len(conformer.bond_topologies) = 1
      THEN [raised |-> "", index |-> 1]
      ELSE IF flagged # {}
      THEN [raised |-> "", index |-> CHOOSE i \in flagged : \A j \in flagged : j <= i]
      ELSE [raised |-> "ValueError", index |-> 0]

\* Lines 1374-1396.  Positions count from 1 here (Python's index plus one);
\* index is 0 when the call raised.
get_starting_bond_topology_index(conformer) ==
  LET flagged == {i \in DOMAIN conformer.bond_topologies :
                    conformer.bond_topologies[i].is_starting_topology}
  IN  IF Len(conformer.bond_topologies) = 1
      THEN [raised |-> "", index |-> 1]
      ELSE IF flagged # {}
      THEN [raised |-> "", index |-> CHOOSE i \in flagged : \A j \in flagged : i <= j]
      ELSE [raised |-> "ValueError", index |-> 0]

\* dataset_pb2.BondTopologySummary() as it is constructed: no bond topology,
\* every count 0.
BondTopologySummary ==
  [has_bond_topology |-> FALSE,
   bond_topology |-> BondTopology(0, 0),
   count_attempted_conformers |-> 0,
   count_duplicates_same_topology |-> 0,
   count_duplicates_different_topology |-> 0,
   count_failed_geometry_optimization |-> 0,
   count_kept_geometry |-> 0,
   count_missing_calculation |-> 0,
   count_calculation_with_error |-> 0,
   count_calculation_with_warning |-> 0,
   count_calculation_success |-> 0,
   count_detected_match_with_error |-> 0,
   count_detected_match_with_warning |-> 0,
   count_detected_match_success |-> 0]

\* Variant: the starting topology is not left out.
other_topologies_all(conformer, starting_idx) == conformer.bond_topologies

\* Lines 1420-1426: the topologies other than the starting one, in order
\* (all of them when starting_idx is None, here 0).
other_topologies(conformer, starting_idx) ==
  IF starting_idx = 0
  THEN conformer.bond_topologies
  ELSE SubSeq(conformer.bond_topologies, 1, starting_idx - 1)
       \o SubSeq(conformer.bond_topologies, starting_idx + 1, Len(conformer.bond_topologies))

\* Lines 1447-1451 and their two repetitions: one summary per other topology,
\* with the given count_detected_match_* field set.
OtherSummaries(conformer, starting_idx, field) ==
  LET others == other_topologies(conformer, starting_idx)
  IN  [k \in DOMAIN others |->
         [BondTopologySummary EXCEPT !.has_bond_topology = TRUE,
                                     !.bond_topology = others[k],
                                     ![field] = 1]]

\* Lines 1412-1419.
StartingSummary(conformer, starting_idx) ==
  IF starting_idx = 0
  THEN BondTopologySummary
  ELSE [BondTopologySummary EXCEPT !.has_bond_topology = TRUE,
                                   !.bond_topology = conformer.bond_topologies[starting_idx],
                                   !.count_attempted_conformers = 1]

\* The fates the chain of lines 1430-1473 has a branch for, FATE_UNDEFINED
\* (line 1430, which raises) aside.
FailedGeometryFates ==
  {"FATE_GEOMETRY_OPTIMIZATION_PROBLEM", "FATE_DISASSOCIATED", "FATE_FORCE_CONSTANT_FAILURE",
   "FATE_DISCARDED_OTHER"}
ErrorFates ==
  {"FATE_CALCULATION_WITH_SERIOUS_ERROR", "FATE_CALCULATION_WITH_MAJOR_ERROR",
   "FATE_CALCULATION_WITH_MODERATE_ERROR"}
WarningFates ==
  {"FATE_CALCULATION_WITH_WARNING_SERIOUS", "FATE_CALCULATION_WITH_WARNING_VIBRATIONAL"}

\* Variant: a record without calculation results is not counted as kept.
SummaryCountsMissingNotKept(fate) ==
  IF fate = "FATE_DUPLICATE_SAME_TOPOLOGY" THEN {"count_duplicates_same_topology"}
  ELSE IF fate = "FATE_DUPLICATE_DIFFERENT_TOPOLOGY" THEN {"count_duplicates_different_topology"}
  ELSE IF fate \in FailedGeometryFates THEN {"count_failed_geometry_optimization"}
  ELSE IF fate = "FATE_NO_CALCULATION_RESULTS" THEN {"count_missing_calculation"}
  ELSE IF fate \in ErrorFates THEN {"count_kept_geometry", "count_calculation_with_error"}
  ELSE IF fate \in WarningFates THEN {"count_kept_geometry", "count_calculation_with_warning"}
  ELSE IF fate = "FATE_SUCCESS" THEN {"count_kept_geometry", "count_calculation_success"}
  ELSE {}

\* Lines 1432-1473: the counts of summary that the branch of the fate sets
\* to 1; empty for a fate without a branch.
SummaryCounts(fate) ==
  IF fate = "FATE_DUPLICATE_SAME_TOPOLOGY" THEN {"count_duplicates_same_topology"}
  ELSE IF fate = "FATE_DUPLICATE_DIFFERENT_TOPOLOGY" THEN {"count_duplicates_different_topology"}
  ELSE IF fate \in FailedGeometryFates THEN {"count_failed_geometry_optimization"}
  ELSE IF fate = "FATE_NO_CALCULATION_RESULTS"
  THEN {"count_kept_geometry", "count_missing_calculation"}
  ELSE IF fate \in ErrorFates THEN {"count_kept_geometry", "count_calculation_with_error"}
  ELSE IF fate \in WarningFates THEN {"count_kept_geometry", "count_calculation_with_warning"}
  ELSE IF fate = "FATE_SUCCESS" THEN {"count_kept_geometry", "count_calculation_success"}
  ELSE {}

\* Lines 1450, 1459, 1468: the count_detected_match_* field of the branch,
\* "" for a branch that yields no other summary.
DetectedMatchField(fate) ==
  IF fate \in ErrorFates THEN "count_detected_match_with_error"
  ELSE IF fate \in WarningFates THEN "count_detected_match_with_warning"
  ELSE IF fate = "FATE_SUCCESS" THEN "count_detected_match_success"
  ELSE ""

\* Variant: a discarded record has no branch.
conformer_to_bond_topology_summaries_no_discarded(conformer) ==
  LET start == get_starting_bond_topology_index(conformer)
      fate == conformer.fate
      summary == [f \in DOMAIN BondTopologySummary |->
                    IF f \in SummaryCounts(fate) THEN 1
                    ELSE StartingSummary(conformer, start.index)[f]]
  IN  IF fate = "FATE_UNDEFINED" \/ fate = "FATE_DISCARDED_OTHER" \/ SummaryCounts(fate) = {}
      THEN [raised |-> "ValueError", yielded |-> <<>>]
      ELSE [raised |-> "",
            yielded |->
              (IF DetectedMatchField(fate) = "" THEN <<>>
               ELSE OtherSummaries(conformer, start.index, DetectedMatchField(fate)))
              \o (IF start.index # 0 THEN <<summary>> ELSE <<>>)]

\* Lines 1399-1476.  yielded is the sequence of summaries the generator
\* yields when it is run to its end; both raises (lines 1431 and 1473) come
\* before the first yield.  The counts are set on summary whether or not it
\* is yielded in the end (line 1475).
conformer_to_bond_topology_summaries(conformer) ==
  LET start == get_starting_bond_topology_index(conformer)
      fate == conformer.fate
      summary == [f \in DOMAIN BondTopologySummary |->
                    IF f \in SummaryCounts(fate) THEN 1
                    ELSE StartingSummary(conformer, start.index)[f]]
  IN  IF fate = "FATE_UNDEFINED" \/ SummaryCounts(fate) = {}
      THEN [raised |-> "ValueError", yielded |-> <<>>]
      ELSE [raised |-> "",
            yielded |->
              (IF DetectedMatchField(fate) = "" THEN <<>>
               ELSE OtherSummaries(conformer, start.index, DetectedMatchField(fate)))
              \o (IF start.index # 0 THEN <<summary>> ELSE <<>>)]

\* Lines 1479-1493.
conformer_eligible_for_topology_detection(conformer) ==
  /\ conformer.duplicated_by = 0
  /\ conformer.properties.errors.status >= 0
  /\ conformer.properties.errors.status < 512

(***************************************************************************)
(* Input records.  Every family holds pairs of records with the same       *)
(* conformer_id, as the pipeline groups records by id before merging.      *)
(***************************************************************************)
\* Sample values: an ordinary conformer id (bond topology 123, index 45), an
\* energy of -40.651179 and a gradient norm of 0.052254 in 1e-6 units.
Sample == [conformer_id |-> 123045, energy |-> -40651179, gradient_norm |-> 52254]
PlainId == Sample.conformer_id
DupTargets == {123000, 456001}
DupOfIds == {123002, 456003}
DupBys == {0} \cup DupTargets

EnergyBase == Sample.energy
GradientBase == Sample.gradient_norm
BaseNums == <<FloatScalar(EnergyBase), FloatScalar(GradientBase),
              FloatScalar(EnergyBase - 7), FloatScalar(3)>>
AbsentNums == <<NoFloat, NoFloat, NoFloat, NoFloat>>

OkCodes == <<1, 1, 1, 1>>
NoCodes == <<0, 0, 0, 0>>
CodeTuples == AllowedErrorCodes \cup {<<2, 3, 101, 1>>, <<1, 2, 1, 1>>, <<4, 1, 1, 1>>, NoCodes}

T1 == BondTopology(123, 1)
T2 == BondTopology(456, 1)
T3 == BondTopology(123, 2)
TopoPrefix(n) == [i \in 1..n |-> IF i % 2 = 1 THEN T1 ELSE T2]
Geoms(k, n) == [i \in 1..n |-> 10 * k + i]

\* Provenance classes and duplicate links of both records.
FamilySources ==
  \E n1 \in -1..MaxCalcStats, n2 \in -1..MaxCalcStats,
     d1 \in DupBys, d2 \in DupBys,
     o1 \in SeqsUpTo(DupOfIds, MaxDupOf), o2 \in SeqsUpTo(DupOfIds, MaxDupOf) :
    recs = << Conformer(PlainId, n1, d1, o1, Geoms(1, 1), <<T1>>, TRUE, OkCodes, BaseNums, 0, <<>>,
             "UNSPECIFIED"),
             Conformer(PlainId, n2, d2, o2, Geoms(2, 1), <<T1>>, TRUE, OkCodes, BaseNums, 0, <<>>,
             "UNSPECIFIED") >>

\* Numbers of initial geometries and bond topologies, presence of the
\* optimized geometry, for every pair of provenance classes.
FamilyCardinality ==
  \E n1 \in {-1, Stage1NumStats, MaxCalcStats}, n2 \in {-1, Stage1NumStats, MaxCalcStats},
     g1 \in 0..MaxGeoms, g2 \in 0..MaxGeoms,
     t1 \in {TopoPrefix(n) : n \in 0..MaxTopos},
     t2 \in {TopoPrefix(n) : n \in 0..MaxTopos} \cup {<<T2>>, <<T3>>},
     p1 \in BOOLEAN, p2 \in BOOLEAN,
     c \in {OkCodes, <<1, 1, 101, 1>>} :
    recs = << Conformer(PlainId, n1, IF n1 < 0 THEN 123000 ELSE 0, <<>>, Geoms(1, g1), t1, p1,
             c, BaseNums, 0, <<>>, "UNSPECIFIED"),
             Conformer(PlainId, n2, IF n2 < 0 THEN 123000 ELSE 0, <<>>, Geoms(2, g2), t2, p2,
             c, BaseNums, 0, <<>>, "STANDARD") >>

\* The four paired numeric fields of a stage-1 and a stage-2 record.
Stage1Values(base) == {base, SentinelValue}
Stage2Values(base) == {base + d : d \in 0..MaxDelta} \cup {SentinelValue}

FamilyNumeric ==
  \E e1 \in Stage1Values(EnergyBase), e2 \in Stage2Values(EnergyBase),
     g1 \in Stage1Values(GradientBase), g2 \in Stage2Values(GradientBase),
     oe1 \in Stage1Values(EnergyBase), oe2 \in Stage2Values(EnergyBase),
     og1 \in Stage1Values(GradientBase), og2 \in Stage2Values(GradientBase),
     c \in {OkCodes, <<1, 1, 101, 1>>} :
    recs = << Conformer(PlainId, Stage1NumStats, 0, <<>>, Geoms(1, 1), <<T1>>, TRUE, c,
             <<FloatScalar(e1), FloatScalar(g1), FloatScalar(oe1), FloatScalar(og1)>>,
             0, <<>>, "UNSPECIFIED"),
             Conformer(PlainId, MaxCalcStats, 0, <<>>, Geoms(2, 1), <<T1>>, TRUE, NoCodes,
             <<FloatScalar(e2), FloatScalar(g2), FloatScalar(oe2), FloatScalar(og2)>>,
             0, <<>>, "STANDARD") >>

\* Legacy error codes, ids, statuses, frequencies and duplicate links of a
\* stage-1 and a stage-2 record.
FamilyCodes ==
  \E id \in {SpecialId, PlainId},
     c \in CodeTuples,
     d1 \in {0, 123000}, d2 \in DupBys,
     n1 \in {BaseNums, AbsentNums},
     n2 \in {BaseNums, [BaseNums EXCEPT ![3] = FloatScalar(EnergyBase)]},
     s1 \in {0, 570}, s2 \in {0, 10, 700, 800},
     f \in {<<>>, <<-10, 100>>, <<-50>>},
     db \in {"UNSPECIFIED", "STANDARD"},
     g1 \in 0..1 :
    recs = << Conformer(id, Stage1NumStats, d1, IF d1 = 0 THEN <<>> ELSE <<123002>>, Geoms(1, g1),
             <<T1>>, TRUE, c, n1, s1, f, "UNSPECIFIED"),
             Conformer(id, 0, d2, IF d2 = 0 THEN <<>> ELSE <<456003>>, Geoms(2, 1),
             <<T1>>, TRUE, NoCodes, n2, s2, <<>>, db) >>

InputPairs == FamilySources \/ FamilyCardinality \/ FamilyNumeric \/ FamilyCodes

(***************************************************************************)
(* The state machine: one call on the input records.                       *)
(***************************************************************************)
\* What a call left behind: the exception raised ("" for none) and the value
\* returned, in the field of its kind (returned is the index of the record
\* object that is returned, 0 for None or no record).  prev is empty unless
\* the call comes after another one; then it holds what that call left
\* behind and the record as it was in between.
NoRet == [op |-> "none", args |-> <<>>, raised |-> "", source |-> "",
          returned |-> 0, conflict |-> NoneVal,
          level |-> -1, fate |-> "", include |-> FALSE, eligible |-> FALSE,
          yielded |-> <<>>, prev |-> <<>>]

Init ==
  /\ InputPairs
  /\ inputs = recs
  /\ pc = "input"
  /\ ret = NoRet

\* source = _conformer_source(recs[i])
ConformerSourceCall(i) ==
  /\ pc = "input"
  /\ LET source == conformer_source(recs[i])
     IN  ret' = [NoRet EXCEPT !.op = "_conformer_source", !.args = <<i>>,
                              !.raised = IF source = "ValueError" THEN source ELSE "",
                              !.source = IF source = "ValueError" THEN "" ELSE source]
  /\ pc' = "classified"
  /\ UNCHANGED <<recs, inputs>>

\* The record returned by a first merge is merged, in either argument order,
\* with a record that was not part of that merge.
MergesReturned(i, j) ==
  /\ pc = "merged"
  /\ ret.prev = <<>>
  /\ ret.returned # 0
  /\ {i, j} \cap Range(ret.args) = {ret.returned}

\* merged, conflict = merge_conformer(recs[i], recs[j])
MergeConformerCall(i, j) ==
  /\ pc = "input" \/ MergesReturned(i, j)
  /\ i # j
  /\ LET m == merge_conformer(recs[i], recs[j])
     IN  /\ recs' = [recs EXCEPT ![i] = m.first, ![j] = m.second]
         /\ ret' = [NoRet EXCEPT !.op = "merge_conformer", !.args = <<i, j>>,
                                 !.raised = m.raised,
                                 !.returned = IF m.returned = 0 THEN 0
                                              ELSE <<i, j>>[m.returned],
                                 !.conflict = m.conflict,
                                 !.prev = IF pc = "input" THEN <<>>
                                          ELSE <<[ret |-> ret, rec |-> recs[ret.returned]]>>]
  /\ pc' = "merged"
  /\ UNCHANGED inputs

Next ==
  \/ \E i \in DOMAIN recs : ConformerSourceCall(i)
  \/ \E i \in DOMAIN recs : \E j \in DOMAIN recs : MergeConformerCall(i, j)

Spec == Init /\ [][Next]_vars

(***************************************************************************)
(* Single input records, for the operations that take one record.          *)
(***************************************************************************)
\* w holds the nine warn_* levels in the order of the fields below.
WithWarnings(conformer, w) ==
  [conformer EXCEPT
     !.properties.errors.warn_t1 = w[1],
     !.properties.errors.warn_t1_excess = w[2],
     !.properties.errors.warn_bse_b5_b6 = w[3],
     !.properties.errors.warn_bse_cccsd_b5 = w[4],
     !.properties.errors.warn_exc_lowest_excitation = w[5],
     !.properties.errors.warn_exc_smallest_oscillator = w[6],
     !.properties.errors.warn_exc_largest_oscillator = w[7],
     !.properties.errors.warn_vib_linearity = w[8],
     !.properties.errors.warn_vib_imaginary = w[9]]

NoWarnings == <<0, 0, 0, 0, 0, 0, 0, 0, 0>>
LegacyTuples == CodeTuples \cup {<<1, 1, 1, 2>>, <<3, 1, 2, 1>>}
StatusLadder == {-1, 0, 3, 4, 7, 8, 10, 63, 64}
Stage1Statuses == {-1, 0, 512, 570, 580, 590, 600}
Databases == {"UNSPECIFIED", "STANDARD", "COMPLETE"}
ValueOrSentinel(base) == {FloatScalar(base), FloatScalar(SentinelValue)}

\* Legacy codes, statuses and sentinel values of records of every class.
FamilyLegacy ==
  \E n \in {-1, 0, Stage1NumStats, MaxCalcStats},
     d \in {0, 123000},
     st \in {0, 570},
     c \in LegacyTuples,
     nums \in (ValueOrSentinel(EnergyBase) \X ValueOrSentinel(GradientBase)
               \X ValueOrSentinel(EnergyBase - 7) \X ValueOrSentinel(3)) \cup {AbsentNums},
     opt \in BOOLEAN :
    recs = << Conformer(PlainId, n, d, <<>>, Geoms(1, 1), <<T1>>, opt, c, nums, st, <<>>,
                        "UNSPECIFIED") >>

\* Warning levels on both sides of every threshold, without an error status.
FamilyWarnings ==
  \E w \in {1, 2} \X {1, 2} \X {1, 2} \X {1, 2} \X {1, 2} \X {0, 1} \X {0, 1} \X {0, 1} \X {1, 2},
     st \in {0, 3} :
    recs = << WithWarnings(Conformer(PlainId, 0, 0, <<>>, Geoms(1, 1), <<T1>>, TRUE, NoCodes,
                                     BaseNums, st, <<>>, "UNSPECIFIED"), w) >>

\* Statuses, duplicate links, ids and tiers of records of every class.
FamilyFate ==
  \E n \in {-1, 0, Stage1NumStats},
     id \in {PlainId, 123999},
     d \in {0, 123000, 124000, 456001},
     st \in StatusLadder \cup Stage1Statuses,
     db \in Databases,
     c \in {OkCodes, NoCodes},
     w \in {NoWarnings, <<1, 1, 1, 1, 1, 0, 0, 1, 1>>, <<2, 1, 1, 1, 1, 0, 0, 1, 1>>} :
    recs = << WithWarnings(Conformer(id, n, d, <<>>, Geoms(1, 1), <<T1>>, TRUE, c, BaseNums,
                                     st, <<>>, db), w) >>

\* Populated and unpopulated fields, with and without original_conformer_index.
FamilyAvailability ==
  \E n \in {0, Stage1NumStats},
     nums \in {BaseNums, AbsentNums, [BaseNums EXCEPT ![1] = NoFloat, ![4] = NoFloat],
               [AbsentNums EXCEPT ![1] = FloatScalar(EnergyBase)]},
     f \in {<<>>, <<100>>},
     index \in {0, 7},
     d \in {0, 123000},
     st \in {0, 4},
     db \in Databases :
    recs = << [Conformer(PlainId, n, d, <<>>, Geoms(1, 1), <<T1>>, TRUE, OkCodes, nums, st, f, db)
                 EXCEPT !.original_conformer_index = index] >>

\* Fates and bond topologies (flagged as starting or not) of finalized records.
Fates ==
  {"FATE_UNDEFINED", "FATE_DUPLICATE_SAME_TOPOLOGY", "FATE_DUPLICATE_DIFFERENT_TOPOLOGY",
   "FATE_GEOMETRY_OPTIMIZATION_PROBLEM", "FATE_DISASSOCIATED", "FATE_FORCE_CONSTANT_FAILURE",
   "FATE_DISCARDED_OTHER", "FATE_NO_CALCULATION_RESULTS",
   "FATE_CALCULATION_WITH_SERIOUS_ERROR", "FATE_CALCULATION_WITH_MAJOR_ERROR",
   "FATE_CALCULATION_WITH_MODERATE_ERROR", "FATE_CALCULATION_WITH_WARNING_SERIOUS",
   "FATE_CALCULATION_WITH_WARNING_VIBRATIONAL", "FATE_SUCCESS"}
FlaggedTopologies(flags) ==
  [i \in DOMAIN flags |->
     [bond_topology_id |-> 122 + i, bonds |-> 1, is_starting_topology |-> flags[i]]]

FamilySummaries ==
  \E n \in {0, Stage1NumStats},
     fate \in Fates,
     flags \in SeqsUpTo(BOOLEAN, MaxSummaryTopos) :
    recs = << [Conformer(PlainId, n, 0, <<>>, Geoms(1, 1), FlaggedTopologies(flags), TRUE,
                         NoCodes, BaseNums, 0, <<>>, "UNSPECIFIED")
                 EXCEPT !.fate = fate] >>

InputRecords ==
  FamilyLegacy \/ FamilyWarnings \/ FamilyFate \/ FamilyAvailability \/ FamilySummaries

\* The availability tags the fields of properties may carry: three tables,
\* in which every field carries every tag once.
Tiers == <<"STANDARD", "COMPLETE", "INTERNAL_ONLY">>
FieldOrder ==
  <<"calculation_statistics", "errors", "initial_geometry_energy",
    "initial_geometry_gradient_norm", "optimized_geometry_energy",
    "optimized_geometry_gradient_norm", "harmonic_frequencies">>
TagTable(k) ==
  [f \in DOMAIN DefaultProperties |->
     Tiers[(((CHOOSE i \in DOMAIN FieldOrder : FieldOrder[i] = f) + k) % 3) + 1]]
TagTables == {TagTable(k) : k \in 0..2}
AllowedSets == SUBSET Range(Tiers)

(***************************************************************************)
(* The state machine of the one-record operations: one call on the input   *)
(* record, which may be repeated once with the same arguments, or be        *)
(* followed by the next step of the pipeline (merge, normalize, assign the  *)
(* fate, summarize) on the same record.                                    *)
(***************************************************************************)
RecordInit ==
  /\ InputRecords
  /\ inputs = recs
  /\ pc = "input"
  /\ ret = NoRet

AfterNormalization ==
  {"conformer_calculation_error_level", "should_include_in_standard", "determine_fate",
   "assign_fate", "conformer_eligible_for_topology_detection"}

Follows(op, args) ==
  \/ pc = "merged" /\ ret.returned # 0 /\ args = <<ret.returned>>
       /\ op = "clean_up_error_codes"
  \/ pc = "clean_up_error_codes" /\ ret.raised = "" /\ args = ret.args
       /\ op \in AfterNormalization
  \/ pc = "assign_fate" /\ ret.raised = "" /\ args = ret.args
       /\ op = "conformer_to_bond_topology_summaries"

CanCall(op, args) ==
  \/ pc = "input"
  \/ pc = op /\ ret.args = args /\ ret.prev = <<>>
  \/ Follows(op, args)

Called(op, args) ==
  [NoRet EXCEPT !.op = op, !.args = args,
                !.prev = IF pc = "input" THEN <<>>
                         ELSE <<[ret |-> ret, rec |-> recs[args[1]]]>>]

\* clean_up_error_codes(recs[i])
CleanUpErrorCodesCall(i) ==
  /\ CanCall("clean_up_error_codes", <<i>>)
  /\ LET c == clean_up_error_codes(recs[i])
     IN  /\ recs' = [recs EXCEPT ![i] = c.conformer]
         /\ ret' = [Called("clean_up_error_codes", <<i>>) EXCEPT !.raised = c.raised]
  /\ pc' = "clean_up_error_codes"
  /\ UNCHANGED inputs

\* clean_up_sentinel_values(recs[i])
CleanUpSentinelValuesCall(i) ==
  /\ CanCall("clean_up_sentinel_values", <<i>>)
  /\ recs' = [recs EXCEPT ![i] = clean_up_sentinel_values(recs[i])]
  /\ ret' = Called("clean_up_sentinel_values", <<i>>)
  /\ pc' = "clean_up_sentinel_values"
  /\ UNCHANGED inputs

\* level = conformer_calculation_error_level(recs[i])
ErrorLevelCall(i) ==
  /\ CanCall("conformer_calculation_error_level", <<i>>)
  /\ LET l == conformer_calculation_error_level(recs[i])
     IN  ret' = [Called("conformer_calculation_error_level", <<i>>)
                   EXCEPT !.raised = l.raised, !.level = l.level]
  /\ pc' = "conformer_calculation_error_level"
  /\ UNCHANGED <<recs, inputs>>

\* fate = determine_fate(recs[i])
DetermineFateCall(i) ==
  /\ CanCall("determine_fate", <<i>>)
  /\ LET f == determine_fate(recs[i])
     IN  ret' = [Called("determine_fate", <<i>>) EXCEPT !.raised = f.raised, !.fate = f.fate]
  /\ pc' = "determine_fate"
  /\ UNCHANGED <<recs, inputs>>

\* include = should_include_in_standard(recs[i])
ShouldIncludeCall(i) ==
  /\ CanCall("should_include_in_standard", <<i>>)
  /\ LET s == should_include_in_standard(recs[i])
     IN  ret' = [Called("should_include_in_standard", <<i>>)
                   EXCEPT !.raised = s.raised, !.include = s.include]
  /\ pc' = "should_include_in_standard"
  /\ UNCHANGED <<recs, inputs>>

\* returned = conformer_to_standard(recs[i]), under the tag table availability
ConformerToStandardCall(i, availability) ==
  /\ CanCall("conformer_to_standard", <<i, availability>>)
  /\ LET s == conformer_to_standard(recs[i], availability)
     IN  /\ recs' = [recs EXCEPT ![i] = s.conformer]
         /\ ret' = [Called("conformer_to_standard", <<i, availability>>)
                      EXCEPT !.raised = s.raised,
                             !.returned = IF s.raised # "" \/ s.is_none THEN 0 ELSE i]
  /\ pc' = "conformer_to_standard"
  /\ UNCHANGED inputs

\* filter_conformer_by_availability(recs[i], allowed), under the tag table availability
FilterByAvailabilityCall(i, allowed, availability) ==
  /\ CanCall("filter_conformer_by_availability", <<i, allowed, availability>>)
  /\ recs' = [recs EXCEPT
                ![i] = filter_conformer_by_availability(recs[i], allowed, availability)]
  /\ ret' = Called("filter_conformer_by_availability", <<i, allowed, availability>>)
  /\ pc' = "filter_conformer_by_availability"
  /\ UNCHANGED inputs

\* summaries = list(conformer_to_bond_topology_summaries(recs[i]))
SummariesCall(i) ==
  /\ CanCall("conformer_to_bond_topology_summaries", <<i>>)
  /\ LET s == conformer_to_bond_topology_summaries(recs[i])
     IN  ret' = [Called("conformer_to_bond_topology_summaries", <<i>>)
                   EXCEPT !.raised = s.raised, !.yielded = s.yielded]
  /\ pc' = "conformer_to_bond_topology_summaries"
  /\ UNCHANGED <<recs, inputs>>

\* eligible = conformer_eligible_for_topology_detection(recs[i])
EligibleCall(i) ==
  /\ CanCall("conformer_eligible_for_topology_detection", <<i>>)
  /\ ret' = [Called("conformer_eligible_for_topology_detection", <<i>>)
               EXCEPT !.eligible = conformer_eligible_for_topology_detection(recs[i])]
  /\ pc' = "conformer_eligible_for_topology_detection"
  /\ UNCHANGED <<recs, inputs>>

\* recs[i].fate = determine_fate(recs[i]): the step of the pipeline that sets
\* the fate, once, on a record whose fate is not set.
AssignFateCall(i) ==
  /\ CanCall("assign_fate", <<i>>)
  /\ recs[i].fate = "FATE_UNDEFINED"
  /\ LET f == determine_fate(recs[i])
     IN  /\ recs' = [recs EXCEPT ![i].fate = IF f.raised = "" THEN f.fate ELSE @]
         /\ ret' = [Called("assign_fate", <<i>>) EXCEPT !.raised = f.raised, !.fate = f.fate]
  /\ pc' = "assign_fate"
  /\ UNCHANGED inputs

RecordNext ==
  \/ \E i \in DOMAIN recs : ConformerSourceCall(i)
  \/ \E i \in DOMAIN recs : CleanUpErrorCodesCall(i)
  \/ \E i \in DOMAIN recs : CleanUpSentinelValuesCall(i)
  \/ \E i \in DOMAIN recs : ErrorLevelCall(i)
  \/ \E i \in DOMAIN recs : DetermineFateCall(i)
  \/ \E i \in DOMAIN recs : ShouldIncludeCall(i)
  \/ \E i \in DOMAIN recs : \E availability \in TagTables :
       ConformerToStandardCall(i, availability)
  \/ \E i \in DOMAIN recs : \E allowed \in AllowedSets : \E availability \in TagTables :
       FilterByAvailabilityCall(i, allowed, availability)
  \/ \E i \in DOMAIN recs : SummariesCall(i)
  \/ \E i \in DOMAIN recs : EligibleCall(i)
  \/ \E i \in DOMAIN recs : AssignFateCall(i)

RecordSpec == RecordInit /\ [][RecordNext]_vars

(***************************************************************************)
(* The pipeline on the records of one id: the pair is merged, the record   *)
(* returned is normalized, its fate is determined and assigned, and the    *)
(* record is summarized.                                                   *)
(***************************************************************************)
\* Pairs of every two provenance classes: the first record carries legacy
\* codes, the second a final status and warnings.
PipelineWarnings ==
  {NoWarnings, [NoWarnings EXCEPT ![1] = 2], [NoWarnings EXCEPT ![9] = 2]}

PipelinePairs ==
  \E n1 \in {-1, Stage1NumStats, 0}, n2 \in {-1, Stage1NumStats, 0},
     c \in {OkCodes, <<2, 3, 2, 1>>, <<5, 1, 3, 1>>, <<4, 1, 1, 1>>},
     d1 \in {0, 123000}, d2 \in DupBys,
     s2 \in {0, 4, 10, 64, 700, 800},
     w \in PipelineWarnings,
     f \in {<<>>, <<-50>>},
     db \in {"UNSPECIFIED", "STANDARD"} :
    recs = << Conformer(PlainId, n1, d1, IF d1 = 0 THEN <<>> ELSE <<123002>>, Geoms(1, 1),
             <<T1>>, TRUE, c, BaseNums, 0, f, "UNSPECIFIED"),
             LET second == Conformer(PlainId, n2, d2, IF d2 = 0 THEN <<>> ELSE <<456003>>,
                                     Geoms(2, 1), <<T1>>, TRUE, NoCodes, BaseNums, s2, <<>>, db)
             IN  IF n2 < 0 THEN second ELSE WithWarnings(second, w) >>

PipelineInit ==
  /\ PipelinePairs
  /\ inputs = recs
  /\ pc = "input"
  /\ ret = NoRet

PipelineNext ==
  \/ \E i \in DOMAIN recs : \E j \in DOMAIN recs : MergeConformerCall(i, j)
  \/ \E i \in DOMAIN recs : CleanUpErrorCodesCall(i)
  \/ \E i \in DOMAIN recs : DetermineFateCall(i)
  \/ \E i \in DOMAIN recs : AssignFateCall(i)
  \/ \E i \in DOMAIN recs : ShouldIncludeCall(i)
  \/ \E i \in DOMAIN recs : EligibleCall(i)
  \/ \E i \in DOMAIN recs : SummariesCall(i)

PipelineSpec == PipelineInit /\ [][PipelineNext]_vars

(***************************************************************************)
(* The three partial records of one id, merged two at a time: a DUPLICATE  *)
(* record (the id and the duplicate links, nothing else), a stage-1 and a  *)
(* stage-2 record.                                                         *)
(***************************************************************************)
Triples ==
  \E d \in DupBys, o \in {<<>>, <<123002>>},
     d1 \in DupBys, g1 \in 0..1, t1 \in {<<>>, <<T1>>},
     c \in {OkCodes, <<2, 3, 2, 1>>},
     d2 \in DupBys, g2 \in 0..1, t2 \in {<<>>, <<T1>>, <<T2>>},
     n2 \in {BaseNums, [BaseNums EXCEPT ![3] = FloatScalar(EnergyBase)]},
     s2 \in {0, 700} :
    /\ d # 0 \/ o # <<>>
    /\ recs = << Conformer(PlainId, -1, d, o, <<>>, <<>>, FALSE, NoCodes, AbsentNums, 0, <<>>,
                           "UNSPECIFIED"),
                 Conformer(PlainId, Stage1NumStats, d1, IF d1 = 0 THEN <<>> ELSE <<456003>>,
                           Geoms(1, g1), t1, TRUE, c, BaseNums, 0, <<-50>>, "UNSPECIFIED"),
                 Conformer(PlainId, 0, d2, <<>>, Geoms(2, g2), t2, TRUE, NoCodes, n2, s2, <<>>,
                           "STANDARD") >>

TripleInit ==
  /\ Triples
  /\ inputs = recs
  /\ pc = "input"
  /\ ret = NoRet

TripleNext ==
  \E i \in DOMAIN recs : \E j \in DOMAIN recs : MergeConformerCall(i, j)

TripleSpec == TripleInit /\ [][TripleNext]_vars

(***************************************************************************)
(* Vocabulary of the properties.                                           *)
(***************************************************************************)
Classified == pc = "classified"
Merged == pc = "merged"
Arg1 == inputs[ret.args[1]]
Arg2 == inputs[ret.args[2]]
Failed == ret.raised # "" /\ ret.returned = 0
Returned == recs[ret.returned]
IsNone(x) == x = NoneVal

BothOf(source) ==
  Merged /\ conformer_source(Arg1) = source /\ conformer_source(Arg2) = source
DifferentSources ==
  /\ Merged
  /\ conformer_source(Arg1) # "ValueError"
  /\ conformer_source(Arg2) # "ValueError"
  /\ conformer_source(Arg1) # conformer_source(Arg2)
Stage12 ==
  Merged /\ {conformer_source(Arg1), conformer_source(Arg2)} = {"STAGE1", "STAGE2"}
Stage1Arg == IF conformer_source(Arg1) = "STAGE1" THEN ret.args[1] ELSE ret.args[2]
Stage2Arg == IF conformer_source(Arg1) = "STAGE1" THEN ret.args[2] ELSE ret.args[1]
Stage1In == inputs[Stage1Arg]
Stage2In == inputs[Stage2Arg]

NumericFields == <<"initial_geometry_energy", "initial_geometry_gradient_norm",
                   "optimized_geometry_energy", "optimized_geometry_gradient_norm">>
Tolerance(k) == IF k \in {1, 3} THEN 2 ELSE 1
Val(c, k) == c.properties[NumericFields[k]].value
WithinTolerance(k) == Abs(Val(Stage1In, k) - Val(Stage2In, k)) <= Tolerance(k)
Stage1Codes == <<Stage1In.properties.errors.error_nstat1, Stage1In.properties.errors.error_nstatc,
                 Stage1In.properties.errors.error_frequencies,
                 Stage1In.properties.errors.error_nstatt>>
OneTopologyEach ==
  Len(Stage1In.bond_topologies) = 1 /\ Len(Stage2In.bond_topologies) = 1
OneInitialGeometryEach ==
  Len(Stage1In.initial_geometries) = 1 /\ Len(Stage2In.initial_geometries) = 1
SameStructure ==
  /\ OneTopologyEach
  /\ Len(Stage1In.initial_geometries) = Len(Stage2In.initial_geometries)
  /\ Stage1In.has_optimized_geometry = Stage2In.has_optimized_geometry

(***************************************************************************)
(* C1: _conformer_source classifies a record without properties as         *)
(* DUPLICATE when duplicated_by != 0 or duplicate_of is non-empty and      *)
(* raises otherwise; a record with properties is STAGE1 exactly when it    *)
(* has exactly 2 calculation_statistics entries and STAGE2 for every       *)
(* other count, 0 included.                                                *)
(***************************************************************************)
C1_SourceClassification ==
  Classified =>
    LET conf == inputs[ret.args[1]]
        linked == conf.duplicated_by # 0 \/ Len(conf.duplicate_of) > 0
    IN  /\ (~conf.has_properties /\ linked) => (ret.raised = "" /\ ret.source = "DUPLICATE")
        /\ (~conf.has_properties /\ ~linked) => (ret.raised = "ValueError" /\ ret.source = "")
        /\ (conf.has_properties /\ conf.properties.calculation_statistics = 2)
             => (ret.raised = "" /\ ret.source = "STAGE1")
        /\ (conf.has_properties /\ conf.properties.calculation_statistics # 2)
             => (ret.raised = "" /\ ret.source = "STAGE2")

C1_Witness_ZeroStatsIsStage2 ==
  /\ Classified
  /\ inputs[ret.args[1]].has_properties
  /\ inputs[ret.args[1]].properties.calculation_statistics = 0
  /\ inputs[ret.args[1]].duplicated_by # 0
  /\ ret.source = "STAGE2"

(***************************************************************************)
(* C2: merge_conformer raises and returns no record (a) when both inputs   *)
(* are STAGE1 or both are STAGE2, and (b) for inputs of different classes  *)
(* when a side has more than one initial geometry or more than one bond    *)
(* topology, or both sides carry a bond topology and the two differ in id  *)
(* or structure.                                                           *)
(***************************************************************************)
C2_FatalContractViolations ==
  /\ (BothOf("STAGE1") \/ BothOf("STAGE2")) => (Failed /\ ret.raised = "ValueError")
  /\ (/\ DifferentSources
      /\ \/ Len(Arg1.initial_geometries) > 1
         \/ Len(Arg2.initial_geometries) > 1
         \/ Len(Arg1.bond_topologies) > 1
         \/ Len(Arg2.bond_topologies) > 1
         \/ /\ Len(Arg1.bond_topologies) >= 1
            /\ Len(Arg2.bond_topologies) >= 1
            /\ \/ Arg1.bond_topologies[1].bond_topology_id
                    # Arg2.bond_topologies[1].bond_topology_id
               \/ Arg1.bond_topologies[1].bonds # Arg2.bond_topologies[1].bonds)
       => (Failed /\ ret.raised = "ValueError")

C2_Witness_SameIdOtherStructure ==
  /\ DifferentSources
  /\ Len(Arg1.initial_geometries) = 1 /\ Len(Arg2.initial_geometries) = 1
  /\ Len(Arg1.bond_topologies) = 1 /\ Len(Arg2.bond_topologies) = 1
  /\ Arg1.bond_topologies[1].bond_topology_id = Arg2.bond_topologies[1].bond_topology_id
  /\ Arg1.bond_topologies[1].bonds # Arg2.bond_topologies[1].bonds
  /\ Failed
  /\ recs = inputs

C4_DuplicateLinkReconciliation ==
  (/\ Merged
   /\ conformer_source(Arg1) # "ValueError"
   /\ conformer_source(Arg2) # "ValueError") =>
    /\ (/\ Arg1.duplicated_by # 0
        /\ Arg2.duplicated_by # 0
        /\ Arg1.duplicated_by # Arg2.duplicated_by) => Failed
    /\ (~Failed) =>
         /\ Returned.duplicated_by = Max(Arg1.duplicated_by, Arg2.duplicated_by)
         /\ Range(Arg1.duplicate_of) \cup Range(Arg2.duplicate_of)
              \subseteq Range(Returned.duplicate_of)

(***************************************************************************)
(* C5, as stated: merging a STAGE1 and a STAGE2 record whose four paired   *)
(* numeric fields are equal within tolerance and whose stage-1 legacy      *)
(* codes are (1,1,1,1) returns a conflict report of None.  (Stated for the *)
(* merges that return at all.)                                             *)
(***************************************************************************)
NumericsAgreeOkCodes ==
  /\ Stage12
  /\ \A k \in 1..4 : WithinTolerance(k)
  /\ Stage1Codes = <<1, 1, 1, 1>>

C5_Original_NoConflictWhenNumericsAgree ==
  (NumericsAgreeOkCodes /\ ~Failed) => IsNone(ret.conflict)

(***************************************************************************)
(* C5, amended: such a merge returns a conflict report of None provided    *)
(* also each side carries exactly one bond topology, both sides carry the  *)
(* same number of initial geometries and agree on the presence of          *)
(* optimized_geometry, whenever the merge returns a record.                *)
(***************************************************************************)
C5_NoConflictWhenNumericsAndStructureAgree ==
  (NumericsAgreeOkCodes /\ SameStructure /\ ~Failed) => IsNone(ret.conflict)

C5_Witness_WithinToleranceNotEqual ==
  /\ NumericsAgreeOkCodes
  /\ SameStructure
  /\ Val(Stage2In, 1) = Val(Stage1In, 1) + 2
  /\ Val(Stage2In, 2) = Val(Stage1In, 2) + 1
  /\ ~Failed
  /\ IsNone(ret.conflict)

(***************************************************************************)
(* C6, as stated: in a STAGE1+STAGE2 merge a conflict report is returned   *)
(* whenever, for one of the four paired fields, the stage-2 value is not   *)
(* -1 and differs from the stage-1 value by more than the tolerance.       *)
(* (Stated for inputs that carry exactly one initial geometry each.)       *)
(***************************************************************************)
Mismatch(k) ==
  Val(Stage2In, k) # -1000000 /\ Abs(Val(Stage1In, k) - Val(Stage2In, k)) > Tolerance(k)

C6_Original_ConflictReturnedOnMismatch ==
  (Stage12 /\ OneInitialGeometryEach /\ \E k \in 1..4 : Mismatch(k))
    => (~Failed /\ ~IsNone(ret.conflict))

(***************************************************************************)
(* C6, amended: whenever a STAGE1+STAGE2 merge returns a record, a         *)
(* conflict report is returned with it if for one of the four fields the   *)
(* stage-2 value is not -1 and differs from the stage-1 value by more than *)
(* the tolerance (2e-6 energies, 1e-6 gradient norms); a stage-2 value of  *)
(* exactly -1 causes no conflict through its field; and the tolerance      *)
(* comparison gives the same verdict with the two values exchanged.        *)
(***************************************************************************)
C6_NumericConflictRule ==
  (Stage12 /\ ~Failed) =>
    /\ (\E k \in 1..4 : Mismatch(k)) => ~IsNone(ret.conflict)
    /\ (/\ SameStructure
        /\ Stage1Codes = <<1, 1, 1, 1>>
        /\ \A k \in 1..4 : Val(Stage2In, k) = -1000000 \/ WithinTolerance(k))
         => IsNone(ret.conflict)
    /\ \A k \in 1..4 :
         /\ IsClose(Val(Stage1In, k), Val(Stage2In, k), Tolerance(k))
              = IsClose(Val(Stage2In, k), Val(Stage1In, k), Tolerance(k))
         /\ IsClose(Val(Stage1In, k), Val(Stage2In, k), Tolerance(k)) = WithinTolerance(k)

C6_Witness_EnergyOffByThree ==
  /\ Stage12
  /\ SameStructure
  /\ Stage1Codes = <<1, 1, 1, 1>>
  /\ Val(Stage2In, 1) = Val(Stage1In, 1) + 3
  /\ Val(Stage2In, 3) = -1000000 /\ Val(Stage1In, 3) # -1000000
  /\ WithinTolerance(2) /\ WithinTolerance(4)
  /\ ~Failed
  /\ ~IsNone(ret.conflict)

(***************************************************************************)
(* C7, as stated: merging a STAGE1 record with legacy codes (1,1,101,1)    *)
(* and an id other than 795795001 with any STAGE2 record always returns a  *)
(* non-None conflict report, whatever the numeric values, geometries and   *)
(* bond topologies are.  (Stated for inputs that carry at least one        *)
(* initial geometry each.)                                                 *)
(***************************************************************************)
Frequencies101 ==
  /\ Stage12
  /\ Stage1Codes = <<1, 1, 101, 1>>
  /\ Stage1In.conformer_id # 795795001

C7_Original_Frequencies101AlwaysConflict ==
  (/\ Frequencies101
   /\ Len(Stage1In.initial_geometries) >= 1
   /\ Len(Stage2In.initial_geometries) >= 1) => (~Failed /\ ~IsNone(ret.conflict))

(***************************************************************************)
(* C7, amended: such a merge returns a non-None conflict report whenever   *)
(* it returns a record, whatever the numeric values are; it raises instead *)
(* when a side has more than one initial geometry or bond topology, the    *)
(* bond topologies differ or the duplicated_by values are incompatible.    *)
(***************************************************************************)
C7_Frequencies101ConflictWhenReturned ==
  (Frequencies101 /\ ~Failed) => ~IsNone(ret.conflict)

C7_Witness_OnlyTheCodeConflicts ==
  /\ Frequencies101
  /\ SameStructure
  /\ \A k \in 1..4 : WithinTolerance(k)
  /\ ~Failed
  /\ ~IsNone(ret.conflict)

C9_Stage1InitialDataIsAuthoritative ==
  (Stage12 /\ ~Failed) =>
    /\ \A k \in 1..4 :
         Returned.properties.errors[STAGE1_ERROR_FIELDS[k]]
           = Stage1In.properties.errors[STAGE1_ERROR_FIELDS[k]]
    /\ Returned.properties.initial_geometry_energy.value
         = Stage1In.properties.initial_geometry_energy.value
    /\ Returned.properties.initial_geometry_gradient_norm.value
         = Stage1In.properties.initial_geometry_gradient_norm.value
    /\ Returned.initial_geometries = Stage1In.initial_geometries

C9_Witness_Stage2ValuesReplaced ==
  /\ Stage12
  /\ ~Failed
  /\ ret.returned = Stage2Arg
  /\ ~IsNone(ret.conflict)
  /\ Val(Stage2In, 1) # Val(Stage1In, 1)
  /\ Val(Stage2In, 2) # Val(Stage1In, 2)
  /\ Stage2In.initial_geometries # Stage1In.initial_geometries
  /\ Returned.properties.initial_geometry_gradient_norm.value = Val(Stage1In, 2)

(***************************************************************************)
(* C10, as stated: in a STAGE1+STAGE2 merge where the stage-2 status is    *)
(* 700 or 800 the stage-1 record is the one returned and its status is set *)
(* to 500 + stage1_status // 10, stage1_status being the status carried by *)
(* the stage-1 record.  (Stated for the merges that return.)               *)
(***************************************************************************)
Stage2Discarded ==
  Stage12 /\ Stage2In.properties.errors.status \in {700, 800}

C10_Original_StatusFromStage1Status ==
  (Stage2Discarded /\ ~Failed) =>
    /\ ret.returned = Stage1Arg
    /\ Returned.properties.errors.status
         = 500 + (Stage1In.properties.errors.status \div 10)

(***************************************************************************)
(* C10, amended: when such a merge returns a record, the stage-1 record is *)
(* the one returned and its status is set to 500 + stage2_status // 10     *)
(* (570 or 580), stage2_status being the status carried by the stage-2     *)
(* record; the status the stage-1 record carried is overwritten.           *)
(***************************************************************************)
C10_StatusFromStage2Status ==
  (Stage2Discarded /\ ~Failed) =>
    /\ ret.returned = Stage1Arg
    /\ conformer_source(Returned) = "STAGE1"
    /\ Returned.properties.errors.status
         = 500 + (Stage2In.properties.errors.status \div 10)
    /\ Returned.properties.errors.status \in {570, 580}

C10_Witness_Status800Gives580 ==
  /\ Stage2Discarded
  /\ Stage2In.properties.errors.status = 800
  /\ Stage1In.properties.errors.status = 0
  /\ ~Failed
  /\ ret.returned = Stage1Arg
  /\ Returned.properties.errors.status = 580

(***************************************************************************)
(* C11: every data conflict detected between a STAGE1 and a STAGE2 record  *)
(* (a numeric mismatch, a differing number of initial geometries, a        *)
(* differing number of bond topologies, a differing presence of            *)
(* optimized_geometry, an unexpected legacy-code tuple) is non-fatal: the  *)
(* merge returns the merged record together with the conflict report and   *)
(* does not fail.  (Stated for pairs that pass the cardinality checks of   *)
(* lines 867-886 and carry compatible duplicated_by values, which are the  *)
(* pairs on which conflicts are looked for and nothing else fails.)        *)
(***************************************************************************)
PassesContractChecks ==
  /\ Len(Stage1In.initial_geometries) <= 1
  /\ Len(Stage2In.initial_geometries) <= 1
  /\ Len(Stage1In.bond_topologies) <= 1
  /\ Len(Stage2In.bond_topologies) <= 1
  /\ \/ Stage1In.bond_topologies = <<>>
     \/ Stage2In.bond_topologies = <<>>
     \/ Stage1In.bond_topologies = Stage2In.bond_topologies
  /\ \/ Stage1In.duplicated_by = 0
     \/ Stage2In.duplicated_by = 0
     \/ Stage1In.duplicated_by = Stage2In.duplicated_by

UnexpectedCodes ==
  IF Stage1Codes[3] = 101
  THEN Stage1In.conformer_id # 795795001
  ELSE Stage1Codes \notin {<<1, 1, 1, 1>>, <<3, 1, 1, 1>>, <<2, 3, 2, 1>>, <<5, 1, 3, 1>>}

DataConflict ==
  \/ \E k \in 1..4 : Mismatch(k)
  \/ Len(Stage1In.initial_geometries) # Len(Stage2In.initial_geometries)
  \/ Len(Stage1In.bond_topologies) # Len(Stage2In.bond_topologies)
  \/ Stage1In.has_optimized_geometry # Stage2In.has_optimized_geometry
  \/ UnexpectedCodes

C11_ConflictsAreNonFatal ==
  (Stage12 /\ PassesContractChecks /\ DataConflict)
    => (~Failed /\ ~IsNone(ret.conflict))

(***************************************************************************)
(* Vocabulary of the properties of the one-record operations.              *)
(***************************************************************************)
\* The first call of op has ended / the repeated call of op has ended.
After(op) == pc = op /\ ret.prev = <<>>
Repeated(op) == pc = op /\ ret.prev # <<>> /\ ret.prev[1].ret.op = op
\* The call of op came right after the call of before.
AfterCall(op, before) == pc = op /\ ret.prev # <<>> /\ ret.prev[1].ret.op = before
\* The record as it was handed in, as it is now, as it was between the calls.
In == inputs[ret.args[1]]
Out == recs[ret.args[1]]
Between == ret.prev[1].rec
\* The record as it was when the last call began.
Before == IF ret.prev = <<>> THEN In ELSE Between
InErrors == In.properties.errors
OutErrors == Out.properties.errors
LegacyFieldsUnset(c) ==
  \A k \in 1..4 : c.properties.errors[STAGE1_ERROR_FIELDS[k]] = 0
SameOutsideProperties(c1, c2) ==
  \A f \in DOMAIN c1 \ {"properties"} : c1[f] = c2[f]
SamePropertiesExcept(c1, c2, fields) ==
  \A f \in DOMAIN c1.properties \ fields : c1.properties[f] = c2.properties[f]

(***************************************************************************)
(* C12: clean_up_error_codes on a STAGE1 record: a status that is already  *)
(* nonzero is left as it is, with all geometry and energy fields;          *)
(* otherwise error_nstat1 in {1,3} sets status -1 when duplicated_by is    *)
(* nonzero and leaves it 0 when not, error_nstat1 = 5 sets status 590,     *)
(* error_nstat1 = 2 sets status 600 and clears the four energy and         *)
(* gradient-norm fields and optimized_geometry, and any other error_nstat1 *)
(* leaves status unset.                                                    *)
(***************************************************************************)
GeometryAndEnergyKept ==
  /\ \A k \in 1..4 : Out.properties[NumericFields[k]] = In.properties[NumericFields[k]]
  /\ Out.has_optimized_geometry = In.has_optimized_geometry
  /\ Out.initial_geometries = In.initial_geometries

C12_Stage1StatusFromLegacyCodes ==
  (After("clean_up_error_codes") /\ conformer_source(In) = "STAGE1") =>
    /\ ret.raised = ""
    /\ InErrors.status # 0 => (OutErrors.status = InErrors.status /\ GeometryAndEnergyKept)
    /\ (InErrors.status = 0 /\ InErrors.error_nstat1 \in {1, 3}) =>
         /\ OutErrors.status = (IF In.duplicated_by # 0 THEN -1 ELSE 0)
         /\ GeometryAndEnergyKept
    /\ (InErrors.status = 0 /\ InErrors.error_nstat1 = 5) =>
         (OutErrors.status = 590 /\ GeometryAndEnergyKept)
    /\ (InErrors.status = 0 /\ InErrors.error_nstat1 = 2) =>
         /\ OutErrors.status = 600
         /\ \A k \in 1..4 : ~Out.properties[NumericFields[k]].has
         /\ ~Out.has_optimized_geometry
    /\ (InErrors.status = 0 /\ InErrors.error_nstat1 \notin {1, 2, 3, 5}) =>
         (OutErrors.status = 0 /\ GeometryAndEnergyKept)

C12_Witness_Status600ClearsResults ==
  /\ After("clean_up_error_codes")
  /\ conformer_source(In) = "STAGE1"
  /\ InErrors.status = 0
  /\ InErrors.error_nstat1 = 2
  /\ \A k \in 1..4 : In.properties[NumericFields[k]].has
  /\ In.has_optimized_geometry
  /\ OutErrors.status = 600
  /\ ~Out.properties.optimized_geometry_energy.has
  /\ ~Out.has_optimized_geometry

(***************************************************************************)
(* C13: clean_up_error_codes leaves a STAGE2 record unchanged except that  *)
(* error_nstat1, error_nstatc, error_nstatt and error_frequencies are      *)
(* cleared; and for every record the operation is applied to, the four     *)
(* legacy error fields are unset afterwards.                               *)
(***************************************************************************)
C13_LegacyFieldsClearedStage2Untouched ==
  After("clean_up_error_codes") =>
    /\ LegacyFieldsUnset(Out)
    /\ conformer_source(In) = "STAGE2" =>
         /\ ret.raised = ""
         /\ SameOutsideProperties(Out, In)
         /\ SamePropertiesExcept(Out, In, {"errors"})
         /\ \A f \in DOMAIN OutErrors \ Range(STAGE1_ERROR_FIELDS) : OutErrors[f] = InErrors[f]

C13_Witness_Stage2CodesCleared ==
  /\ After("clean_up_error_codes")
  /\ conformer_source(In) = "STAGE2"
  /\ \A k \in 1..4 : InErrors[STAGE1_ERROR_FIELDS[k]] # 0
  /\ InErrors.status = 570
  /\ OutErrors.status = 570
  /\ LegacyFieldsUnset(Out)

(***************************************************************************)
(* C14: clean_up_sentinel_values clears exactly those of                   *)
(* initial_geometry_energy, initial_geometry_gradient_norm,                *)
(* optimized_geometry_energy, optimized_geometry_gradient_norm whose value *)
(* is exactly -1.0 and changes nothing else; applying it twice gives the   *)
(* same record as applying it once.                                        *)
(***************************************************************************)
C14_SentinelsClearedIdempotently ==
  /\ After("clean_up_sentinel_values") =>
       /\ ret.raised = ""
       /\ \A k \in 1..4 :
            Out.properties[NumericFields[k]] =
              (IF In.properties[NumericFields[k]].value = -1000000
               THEN [has |-> FALSE, value |-> 0]
               ELSE In.properties[NumericFields[k]])
       /\ SameOutsideProperties(Out, In)
       /\ SamePropertiesExcept(Out, In, Range(NumericFields))
  /\ Repeated("clean_up_sentinel_values") => Out = Between

C14_Witness_SomeSentinelsClearedTwice ==
  /\ Repeated("clean_up_sentinel_values")
  /\ In.properties.initial_geometry_energy.value = -1000000
  /\ In.properties.optimized_geometry_energy.has
  /\ In.properties.optimized_geometry_energy.value # -1000000
  /\ ~Out.properties.initial_geometry_energy.has
  /\ Out.properties.optimized_geometry_energy = In.properties.optimized_geometry_energy
  /\ Out # In

(***************************************************************************)
(* C15: conformer_calculation_error_level returns a value in 0..5: for     *)
(* STAGE1, 0 when error_nstat1 is 1 or 3 and error_nstatc, error_nstatt,   *)
(* error_frequencies are all 1, else 5; for STAGE2, 5 if status >= 64,     *)
(* else 4 if status >= 8, else 3 if status >= 4, else 2 if any of warn_t1, *)
(* warn_t1_excess, warn_bse_b5_b6, warn_bse_cccsd_b5,                      *)
(* warn_exc_lowest_excitation exceeds 1 or warn_exc_smallest_oscillator or *)
(* warn_exc_largest_oscillator exceeds 0, else 1 if warn_vib_linearity > 0 *)
(* or warn_vib_imaginary > 1, else 0.                                      *)
(***************************************************************************)
Stage1Severity(e) ==
  IF /\ e.error_nstat1 \in {1, 3}
     /\ e.error_nstatc = 1 /\ e.error_nstatt = 1 /\ e.error_frequencies = 1
  THEN 0 ELSE 5

Stage2Severity(e) ==
  CASE e.status >= 64 -> 5
    [] e.status < 64 /\ e.status >= 8 -> 4
    [] e.status < 8 /\ e.status >= 4 -> 3
    [] OTHER ->
         IF \/ \E f \in {"warn_t1", "warn_t1_excess", "warn_bse_b5_b6", "warn_bse_cccsd_b5",
                         "warn_exc_lowest_excitation"} : e[f] > 1
            \/ \E f \in {"warn_exc_smallest_oscillator", "warn_exc_largest_oscillator"} :
                 e[f] > 0
         THEN 2
         ELSE IF e.warn_vib_linearity > 0 \/ e.warn_vib_imaginary > 1 THEN 1 ELSE 0

C15_ErrorLevelLadder ==
  After("conformer_calculation_error_level") =>
    /\ ret.raised = "" => ret.level \in 0..5
    /\ conformer_source(In) = "STAGE1" =>
         (ret.raised = "" /\ ret.level = Stage1Severity(InErrors))
    /\ conformer_source(In) = "STAGE2" =>
         (ret.raised = "" /\ ret.level = Stage2Severity(InErrors))

C15_Witness_VibrationalOnly ==
  /\ After("conformer_calculation_error_level")
  /\ conformer_source(In) = "STAGE2"
  /\ InErrors.status = 3
  /\ InErrors.warn_t1 = 1 /\ InErrors.warn_t1_excess = 1 /\ InErrors.warn_bse_b5_b6 = 1
  /\ InErrors.warn_bse_cccsd_b5 = 1 /\ InErrors.warn_exc_lowest_excitation = 1
  /\ InErrors.warn_exc_smallest_oscillator = 0 /\ InErrors.warn_exc_largest_oscillator = 0
  /\ InErrors.warn_vib_linearity = 0 /\ InErrors.warn_vib_imaginary = 2
  /\ ret.level = 1

(***************************************************************************)
(* C16: determine_fate is total and deterministic: for every record that   *)
(* classifies as DUPLICATE, STAGE1 or STAGE2 it returns exactly one        *)
(* FateCategory without failing, does not modify the record, and calling   *)
(* it again on the unchanged record returns the same value.                *)
(***************************************************************************)
FateCategory ==
  {"FATE_UNDEFINED", "FATE_DUPLICATE_SAME_TOPOLOGY", "FATE_DUPLICATE_DIFFERENT_TOPOLOGY",
   "FATE_GEOMETRY_OPTIMIZATION_PROBLEM", "FATE_DISASSOCIATED", "FATE_DISCARDED_OTHER",
   "FATE_NO_CALCULATION_RESULTS", "FATE_CALCULATION_WITH_SERIOUS_ERROR",
   "FATE_CALCULATION_WITH_MAJOR_ERROR", "FATE_CALCULATION_WITH_MODERATE_ERROR",
   "FATE_CALCULATION_WITH_WARNING_SERIOUS", "FATE_CALCULATION_WITH_WARNING_VIBRATIONAL",
   "FATE_SUCCESS"}

C16_FateTotalAndDeterministic ==
  (pc = "determine_fate" /\ conformer_source(Before) \in {"DUPLICATE", "STAGE1", "STAGE2"}) =>
    /\ ret.raised = ""
    /\ ret.fate \in FateCategory
    /\ Out = Before
    /\ Repeated("determine_fate") => ret.fate = ret.prev[1].ret.fate

C16_Witness_DuplicateAskedTwice ==
  /\ Repeated("determine_fate")
  /\ conformer_source(In) = "DUPLICATE"
  /\ ret.raised = ""
  /\ ret.fate = "FATE_UNDEFINED"
  /\ ret.prev[1].ret.fate = "FATE_UNDEFINED"

(***************************************************************************)
(* C17: for a STAGE1 record determine_fate returns, when duplicated_by >   *)
(* 0, DUPLICATE_SAME_TOPOLOGY if conformer_id // 1000 equals               *)
(* duplicated_by // 1000 and DUPLICATE_DIFFERENT_TOPOLOGY otherwise,       *)
(* whatever the status is (id 123045 duplicated_by 123000 gives same       *)
(* topology); when duplicated_by is not > 0, status 600 gives              *)
(* GEOMETRY_OPTIMIZATION_PROBLEM, 590 DISASSOCIATED, 570 or 580            *)
(* DISCARDED_OTHER and every other status NO_CALCULATION_RESULTS.          *)
(***************************************************************************)
C17_Stage1Fate ==
  (After("determine_fate") /\ conformer_source(In) = "STAGE1") =>
    /\ ret.raised = ""
    /\ In.duplicated_by > 0 =>
         ret.fate = (IF In.conformer_id \div 1000 = In.duplicated_by \div 1000
                     THEN "FATE_DUPLICATE_SAME_TOPOLOGY"
                     ELSE "FATE_DUPLICATE_DIFFERENT_TOPOLOGY")
    /\ (In.conformer_id = 123045 /\ In.duplicated_by = 123000) =>
         ret.fate = "FATE_DUPLICATE_SAME_TOPOLOGY"
    /\ ~(In.duplicated_by > 0) =>
         ret.fate = (CASE InErrors.status = 600 -> "FATE_GEOMETRY_OPTIMIZATION_PROBLEM"
                       [] InErrors.status = 590 -> "FATE_DISASSOCIATED"
                       [] InErrors.status \in {570, 580} -> "FATE_DISCARDED_OTHER"
                       [] OTHER -> "FATE_NO_CALCULATION_RESULTS")

C17_Witness_DuplicateBeatsStatus600 ==
  /\ After("determine_fate")
  /\ conformer_source(In) = "STAGE1"
  /\ In.conformer_id = 123045
  /\ In.duplicated_by = 123000
  /\ InErrors.status = 600
  /\ ret.fate = "FATE_DUPLICATE_SAME_TOPOLOGY"

(***************************************************************************)
(* C18: for a STAGE2 record determine_fate maps the severity of            *)
(* conformer_calculation_error_level one-to-one: 5 serious error, 4 major  *)
(* error, 3 moderate error, 2 warning-serious, 1 warning-vibrational, 0    *)
(* success (status 10 gives severity 4 and fate major error),              *)
(* independently of duplicated_by; the 'bad error level' failure is never  *)
(* raised.                                                                 *)
(***************************************************************************)
FateOfSeverity ==
  <<"FATE_CALCULATION_WITH_WARNING_VIBRATIONAL", "FATE_CALCULATION_WITH_WARNING_SERIOUS",
    "FATE_CALCULATION_WITH_MODERATE_ERROR", "FATE_CALCULATION_WITH_MAJOR_ERROR",
    "FATE_CALCULATION_WITH_SERIOUS_ERROR">>

C18_Stage2FateFromSeverity ==
  (After("determine_fate") /\ conformer_source(In) = "STAGE2") =>
    /\ ret.raised = ""
    /\ ret.fate = (IF Stage2Severity(InErrors) = 0 THEN "FATE_SUCCESS"
                   ELSE FateOfSeverity[Stage2Severity(InErrors)])
    /\ InErrors.status = 10 =>
         (Stage2Severity(InErrors) = 4 /\ ret.fate = "FATE_CALCULATION_WITH_MAJOR_ERROR")

C18_Witness_Status10DuplicatedIsMajorError ==
  /\ After("determine_fate")
  /\ conformer_source(In) = "STAGE2"
  /\ InErrors.status = 10
  /\ In.duplicated_by > 0
  /\ ret.fate = "FATE_CALCULATION_WITH_MAJOR_ERROR"

(***************************************************************************)
(* C19: should_include_in_standard returns false for every record with     *)
(* duplicated_by > 0 (even one tagged STANDARD); otherwise false for       *)
(* which_database COMPLETE, true for which_database STANDARD, and for an   *)
(* untiered record true exactly when its severity is 0.                    *)
(* conformer_to_standard returns None and leaves the record unmodified     *)
(* exactly when should_include_in_standard is false.  (Stated for the      *)
(* records for which the answer is defined: an untiered record without a   *)
(* duplicate link has to classify for its severity to exist; the severity  *)
(* of a DUPLICATE record follows the stage-2 rules.)                       *)
(***************************************************************************)
Severity(c) ==
  IF conformer_source(c) = "STAGE1"
  THEN Stage1Severity(c.properties.errors)
  ELSE Stage2Severity(c.properties.errors)

InclusionDefined(c) ==
  \/ c.duplicated_by > 0
  \/ c.which_database \in {"COMPLETE", "STANDARD"}
  \/ conformer_source(c) \in {"DUPLICATE", "STAGE1", "STAGE2"}

Included(c) ==
  IF c.duplicated_by > 0 THEN FALSE
  ELSE IF c.which_database = "COMPLETE" THEN FALSE
  ELSE IF c.which_database = "STANDARD" THEN TRUE
  ELSE Severity(c) = 0

C19_StandardInclusion ==
  /\ (After("should_include_in_standard") /\ InclusionDefined(In)) =>
       /\ ret.raised = ""
       /\ ret.include = Included(In)
       /\ In.duplicated_by > 0 => ~ret.include
  /\ (After("conformer_to_standard") /\ InclusionDefined(In)) =>
       /\ ret.raised = ""
       /\ (ret.returned = 0 /\ Out = In) <=> ~Included(In)
       /\ ret.returned # 0 => ret.returned = ret.args[1]

C19_Witness_StandardButDuplicatedGivesNone ==
  /\ After("conformer_to_standard")
  /\ In.which_database = "STANDARD"
  /\ In.duplicated_by > 0
  /\ conformer_source(In) = "STAGE2"
  /\ Severity(In) = 0
  /\ ret.raised = ""
  /\ ret.returned = 0
  /\ Out = In

(***************************************************************************)
(* C20: after filter_conformer_by_availability(conformer, allowed),        *)
(* original_conformer_index is cleared unless INTERNAL_ONLY is in allowed; *)
(* every properties field that was populated and whose availability tag is *)
(* not in allowed is cleared; every populated properties field whose tag   *)
(* is in allowed, and every field outside properties other than            *)
(* original_conformer_index, is unchanged; applying the filter a second    *)
(* time with the same allowed set changes nothing.                         *)
(***************************************************************************)
Populated(c, f) ==
  CASE f = "calculation_statistics" -> c.properties[f] > 0
    [] f = "harmonic_frequencies" -> Len(c.properties[f]) > 0
    [] OTHER -> c.properties[f].has

FilterAllowed == ret.args[2]
FilterTag(f) == ret.args[3][f]

C20_FilterByAvailability ==
  /\ After("filter_conformer_by_availability") =>
       /\ ret.raised = ""
       /\ Out.original_conformer_index =
            (IF "INTERNAL_ONLY" \in FilterAllowed THEN In.original_conformer_index ELSE 0)
       /\ \A f \in DOMAIN In.properties :
            /\ (Populated(In, f) /\ FilterTag(f) \notin FilterAllowed) => ~Populated(Out, f)
            /\ (Populated(In, f) /\ FilterTag(f) \in FilterAllowed) =>
                 Out.properties[f] = In.properties[f]
            /\ ~Populated(In, f) => ~Populated(Out, f)
       /\ \A f \in DOMAIN In \ {"properties", "original_conformer_index"} : Out[f] = In[f]
  /\ Repeated("filter_conformer_by_availability") => Out = Between

C20_Witness_StandardViewFilteredTwice ==
  /\ Repeated("filter_conformer_by_availability")
  /\ FilterAllowed = {"STANDARD"}
  /\ In.original_conformer_index = 7
  /\ Out.original_conformer_index = 0
  /\ \E f \in DOMAIN In.properties :
       Populated(In, f) /\ FilterTag(f) = "COMPLETE" /\ ~Populated(Out, f)
  /\ \E f \in DOMAIN In.properties :
       Populated(In, f) /\ FilterTag(f) = "INTERNAL_ONLY" /\ ~Populated(Out, f)
  /\ \E f \in DOMAIN In.properties :
       Populated(In, f) /\ FilterTag(f) = "STANDARD" /\ Out.properties[f] = In.properties[f]

(***************************************************************************)
(* Vocabulary of the properties of the summaries.                          *)
(***************************************************************************)
Summarized == pc = "conformer_to_bond_topology_summaries"
Topologies == Before.bond_topologies
Flagged == {i \in DOMAIN Topologies : Topologies[i].is_starting_topology}
\* The position of the starting topology: the only one, else the first
\* flagged one; 0 when there is none.
StartingPosition ==
  IF Len(Topologies) = 1 THEN 1
  ELSE IF Flagged = {} THEN 0
  ELSE CHOOSE i \in Flagged : \A j \in Flagged : i <= j
OtherPositions == DOMAIN Topologies \ {StartingPosition}
MatchFates ==
  {"FATE_CALCULATION_WITH_SERIOUS_ERROR", "FATE_CALCULATION_WITH_MAJOR_ERROR",
   "FATE_CALCULATION_WITH_MODERATE_ERROR", "FATE_CALCULATION_WITH_WARNING_SERIOUS",
   "FATE_CALCULATION_WITH_WARNING_VIBRATIONAL", "FATE_SUCCESS"}
MatchCount(fate) ==
  CASE fate = "FATE_SUCCESS" -> "count_detected_match_success"
    [] fate \in {"FATE_CALCULATION_WITH_WARNING_SERIOUS",
                 "FATE_CALCULATION_WITH_WARNING_VIBRATIONAL"} ->
         "count_detected_match_with_warning"
    [] OTHER -> "count_detected_match_with_error"
IsPrimary(summary) == summary.count_attempted_conformers = 1
Primaries == {k \in DOMAIN ret.yielded : IsPrimary(ret.yielded[k])}
Secondaries == DOMAIN ret.yielded \ Primaries
\* The secondary summaries are, one for one, the topologies at the given
\* positions, each with the matching count at 1.
SecondariesCover(positions) ==
  /\ Cardinality(Secondaries) = Cardinality(positions)
  /\ \A i \in positions :
       \E k \in Secondaries :
         /\ ret.yielded[k].has_bond_topology
         /\ ret.yielded[k].bond_topology = Topologies[i]
  /\ \A k \in Secondaries :
       /\ ret.yielded[k][MatchCount(Before.fate)] = 1
       /\ ret.yielded[k].count_attempted_conformers = 0

(***************************************************************************)
(* C21: for a conformer with a defined fate and an identifiable starting   *)
(* topology among n >= 1 bond topologies, the summaries hold exactly one   *)
(* primary summary, carrying the starting topology, and, only for error,   *)
(* warning and success fates, exactly n-1 secondary summaries, one per     *)
(* other bond topology, each with the matching count_detected_match_*      *)
(* field 1 and count_attempted_conformers 0; for the other fates the       *)
(* primary summary is alone.  A success-fate conformer with one starting   *)
(* and two other topologies yields 3 summaries: one with                   *)
(* count_calculation_success = 1, two with count_detected_match_success =  *)
(* 1.                                                                      *)
(***************************************************************************)
C21_OnePrimaryAndOtherTopologies ==
  (/\ Summarized
   /\ Before.fate # "FATE_UNDEFINED"
   /\ Len(Topologies) >= 1
   /\ StartingPosition # 0) =>
    /\ ret.raised = ""
    /\ Cardinality(Primaries) = 1
    /\ \A k \in Primaries :
         ret.yielded[k].has_bond_topology
           /\ ret.yielded[k].bond_topology = Topologies[StartingPosition]
    /\ IF Before.fate \in MatchFates
       THEN Len(ret.yielded) = Len(Topologies) /\ SecondariesCover(OtherPositions)
       ELSE Len(ret.yielded) = 1
    /\ (Before.fate = "FATE_SUCCESS" /\ Len(Topologies) = 3) =>
         /\ Len(ret.yielded) = 3
         /\ Cardinality({k \in DOMAIN ret.yielded :
                           ret.yielded[k].count_calculation_success = 1}) = 1
         /\ Cardinality({k \in DOMAIN ret.yielded :
                           ret.yielded[k].count_detected_match_success = 1}) = 2

C21_Witness_SuccessWithThreeTopologies ==
  /\ Summarized
  /\ Before.fate = "FATE_SUCCESS"
  /\ Len(Topologies) = 3
  /\ StartingPosition = 2
  /\ ret.raised = ""
  /\ Len(ret.yielded) = 3
  /\ ret.yielded[3].count_calculation_success = 1
  /\ ret.yielded[1].count_detected_match_success = 1
  /\ ret.yielded[2].count_detected_match_success = 1

(***************************************************************************)
(* C22, as stated: when a conformer has several bond topologies and none   *)
(* is flagged is_starting_topology, the summaries do not fail: there is no *)
(* primary summary and, for error, warning and success fates, one          *)
(* secondary summary for every bond topology; when several topologies are  *)
(* flagged, the first flagged one is the starting topology and the other   *)
(* flagged ones are counted as secondary.                                  *)
(***************************************************************************)
SeveralNoneFlagged == Summarized /\ Len(Topologies) >= 2 /\ Flagged = {}
SeveralFlagged == Summarized /\ Len(Topologies) >= 2 /\ Cardinality(Flagged) >= 2

NoPrimaryAllSecondary ==
  /\ ret.raised = ""
  /\ Primaries = {}
  /\ Before.fate \in MatchFates => SecondariesCover(DOMAIN Topologies)

FirstFlaggedIsStarting ==
  /\ ret.raised = ""
  /\ \A k \in Primaries :
       ret.yielded[k].bond_topology = Topologies[StartingPosition]
  /\ Before.fate \in MatchFates =>
       /\ Primaries # {}
       /\ SecondariesCover(OtherPositions)

C22_Original_NoStartingTopologyNeverFails ==
  /\ SeveralNoneFlagged => NoPrimaryAllSecondary
  /\ (SeveralFlagged /\ Before.fate # "FATE_UNDEFINED") => FirstFlaggedIsStarting

(***************************************************************************)
(* C22, amended: the same for a conformer whose fate is defined (not       *)
(* FATE_UNDEFINED); with an undefined fate the summaries fail whatever the *)
(* bond topologies are.                                                    *)
(***************************************************************************)
C22_NoStartingTopologyNotFatal ==
  /\ (SeveralNoneFlagged /\ Before.fate # "FATE_UNDEFINED") => NoPrimaryAllSecondary
  /\ (SeveralFlagged /\ Before.fate # "FATE_UNDEFINED") => FirstFlaggedIsStarting
  /\ (Summarized /\ Before.fate = "FATE_UNDEFINED") =>
       (ret.raised = "ValueError" /\ ret.yielded = <<>>)

C22_Witness_ThreeUnflaggedAllSecondary ==
  /\ SeveralNoneFlagged
  /\ Len(Topologies) = 3
  /\ Before.fate = "FATE_CALCULATION_WITH_WARNING_SERIOUS"
  /\ ret.raised = ""
  /\ Len(ret.yielded) = 3
  /\ \A k \in 1..3 : ret.yielded[k].count_detected_match_with_warning = 1
  /\ Primaries = {}

(***************************************************************************)
(* C28: every primary summary counts its conformer in exactly one outcome  *)
(* bucket: count_attempted_conformers = 1 = count_duplicates_same_topology *)
(* + count_duplicates_different_topology +                                 *)
(* count_failed_geometry_optimization + count_kept_geometry, and           *)
(* count_kept_geometry = count_missing_calculation +                       *)
(* count_calculation_with_error + count_calculation_with_warning +         *)
(* count_calculation_success, with all count_detected_match_* fields 0;    *)
(* every secondary summary has exactly one count_detected_match_* field 1  *)
(* and all other counts 0; secondary summaries are yielded before the      *)
(* primary one.                                                            *)
(***************************************************************************)
DetectedMatchCounts ==
  {"count_detected_match_with_error", "count_detected_match_with_warning",
   "count_detected_match_success"}
AllCounts == DOMAIN BondTopologySummary \ {"has_bond_topology", "bond_topology"}

C28_SummaryCountsPartition ==
  Summarized =>
    /\ \A k \in Primaries :
         LET summary == ret.yielded[k]
         IN  /\ summary.count_attempted_conformers = 1
             /\ summary.count_duplicates_same_topology
                  + summary.count_duplicates_different_topology
                  + summary.count_failed_geometry_optimization
                  + summary.count_kept_geometry = 1
             /\ summary.count_kept_geometry
                  = summary.count_missing_calculation + summary.count_calculation_with_error
                    + summary.count_calculation_with_warning
                    + summary.count_calculation_success
             /\ \A f \in AllCounts : summary[f] \in {0, 1}
             /\ \A f \in DetectedMatchCounts : summary[f] = 0
             /\ k = Len(ret.yielded)
    /\ \A k \in Secondaries :
         LET summary == ret.yielded[k]
         IN  /\ Cardinality({f \in DetectedMatchCounts : summary[f] = 1}) = 1
             /\ \A f \in AllCounts : summary[f] = 0 \/ (f \in DetectedMatchCounts /\ summary[f] = 1)
             /\ \A j \in Primaries : k < j

C28_Witness_MissingCalculationIsKept ==
  /\ Summarized
  /\ Before.fate = "FATE_NO_CALCULATION_RESULTS"
  /\ Len(Topologies) = 2
  /\ Len(ret.yielded) = 1
  /\ ret.yielded[1].count_attempted_conformers = 1
  /\ ret.yielded[1].count_kept_geometry = 1
  /\ ret.yielded[1].count_missing_calculation = 1

(***************************************************************************)
(* C25: severity depends on whether normalization has run: after           *)
(* clean_up_error_codes has been applied to a STAGE1 record its four       *)
(* legacy codes are unset, so conformer_calculation_error_level returns 5  *)
(* for every normalized STAGE1 record, and should_include_in_standard      *)
(* returns false for every normalized STAGE1 record whose which_database   *)
(* is neither STANDARD nor COMPLETE, including records whose severity was  *)
(* 0 before normalization.                                                 *)
(***************************************************************************)
Normalized(op) ==
  /\ AfterCall(op, "clean_up_error_codes")
  /\ conformer_source(In) = "STAGE1"

C25_NormalizedStage1IsSeverity5 ==
  /\ Normalized("conformer_calculation_error_level") =>
       /\ conformer_source(Before) = "STAGE1"
       /\ LegacyFieldsUnset(Before)
       /\ ret.raised = ""
       /\ ret.level = 5
  /\ Normalized("should_include_in_standard") =>
       /\ LegacyFieldsUnset(Before)
       /\ Before.which_database = In.which_database
       /\ Before.which_database \notin {"STANDARD", "COMPLETE"} =>
            (ret.raised = "" /\ ret.include = FALSE)

C25_Witness_Severity0ExcludedOnceNormalized ==
  /\ Normalized("should_include_in_standard")
  /\ Severity(In) = 0
  /\ In.duplicated_by = 0
  /\ In.which_database \notin {"STANDARD", "COMPLETE"}
  /\ should_include_in_standard(In).include = TRUE
  /\ ret.raised = ""
  /\ ret.include = FALSE

(***************************************************************************)
(* C23, as stated: whenever merge_conformer fails with an error            *)
(* (same-stage pair, cardinality violation, bond-topology mismatch,        *)
(* incompatible duplicated_by), neither input record has been modified: no *)
(* partially merged record is left behind; in particular a STAGE1+STAGE2   *)
(* merge that fails on incompatible duplicated_by leaves the stage-2       *)
(* record's legacy error fields, initial geometry energy, gradient norm,   *)
(* coordinates, status and which_database as they were.                    *)
(***************************************************************************)
C23_Original_FailedMergeLeavesInputs ==
  (Merged /\ Failed /\ ret.raised = "ValueError") => recs = inputs

(***************************************************************************)
(* C23, amended: a merge that fails before the stage-1 data is copied      *)
(* (unclassifiable record, same-stage pair, cardinality violation,         *)
(* bond-topology mismatch, incompatible duplicated_by with a DUPLICATE     *)
(* record) leaves both records as they were.  A STAGE1+STAGE2 merge that   *)
(* passes the cardinality and topology checks and then fails leaves a      *)
(* partially merged pair: the stage-2 record carries the stage-1 legacy    *)
(* codes, initial geometry energy and gradient norm, and, unless the       *)
(* failure is the IndexError of an absent initial geometry, the stage-1    *)
(* coordinates; its status, which_database and duplicate links are as they *)
(* were.  The stage-1 record is as it was, unless the stage-2 status is    *)
(* 700 or 800 and the failure is the incompatible duplicated_by: then its  *)
(* status is 570 or 580 and its which_database COMPLETE.                   *)
(***************************************************************************)
ReachesStage1Copy ==
  /\ Stage12
  /\ Len(Stage1In.initial_geometries) <= 1
  /\ Len(Stage2In.initial_geometries) <= 1
  /\ Len(Stage1In.bond_topologies) <= 1
  /\ Len(Stage2In.bond_topologies) <= 1
  /\ \/ Stage1In.bond_topologies = <<>>
     \/ Stage2In.bond_topologies = <<>>
     \/ Stage1In.bond_topologies = Stage2In.bond_topologies

Stage1Left == recs[Stage1Arg]
Stage2Left == recs[Stage2Arg]

\* The stage-2 record with the stage-1 legacy codes and initial values.
Stage2WithStage1Data ==
  [Stage2In EXCEPT
     !.properties.errors.has = TRUE,
     !.properties.errors.error_nstat1 = Stage1In.properties.errors.error_nstat1,
     !.properties.errors.error_nstatc = Stage1In.properties.errors.error_nstatc,
     !.properties.errors.error_nstatt = Stage1In.properties.errors.error_nstatt,
     !.properties.errors.error_frequencies = Stage1In.properties.errors.error_frequencies,
     !.properties.initial_geometry_energy =
        [has |-> TRUE, value |-> Stage1In.properties.initial_geometry_energy.value],
     !.properties.initial_geometry_gradient_norm =
        [has |-> TRUE, value |-> Stage1In.properties.initial_geometry_gradient_norm.value]]

\* c1 and c2 differ at most in the status, the imaginary-frequency warning
\* and which_database.
SameButStatusAndDatabase(c1, c2) ==
  [c1 EXCEPT !.which_database = "", !.properties.errors.has = TRUE,
             !.properties.errors.status = 0, !.properties.errors.warn_vib_imaginary = 0]
    = [c2 EXCEPT !.which_database = "", !.properties.errors.has = TRUE,
                 !.properties.errors.status = 0, !.properties.errors.warn_vib_imaginary = 0]

C23_FailedMergeLeavesInputsBeforeCopy ==
  (Merged /\ Failed) =>
    IF ~ReachesStage1Copy
    THEN ret.raised = "ValueError" /\ recs = inputs
    ELSE IF Stage1In.initial_geometries = <<>> \/ Stage2In.initial_geometries = <<>>
    THEN /\ ret.raised = "IndexError"
         /\ Stage2Left = Stage2WithStage1Data
         /\ Stage1Left = Stage1In
    ELSE /\ ret.raised = "ValueError"
         /\ Stage1In.duplicated_by # 0
         /\ Stage2In.duplicated_by # 0
         /\ Stage1In.duplicated_by # Stage2In.duplicated_by
         /\ Stage2Left = [Stage2WithStage1Data
                            EXCEPT !.initial_geometries = Stage1In.initial_geometries]
         /\ Stage2Left.properties.errors.status = Stage2In.properties.errors.status
         /\ Stage2Left.which_database = Stage2In.which_database
         /\ IF Stage2In.properties.errors.status \in {700, 800}
            THEN /\ SameButStatusAndDatabase(Stage1Left, Stage1In)
                 /\ Stage1Left.which_database = "COMPLETE"
                 /\ Stage1Left.properties.errors.status
                      = (IF Stage2In.properties.errors.status = 700 THEN 570 ELSE 580)
            ELSE Stage1Left = Stage1In

C23_Witness_IncompatibleLinksAfterCopy ==
  /\ Stage12
  /\ Failed
  /\ ret.raised = "ValueError"
  /\ Stage1In.duplicated_by # 0
  /\ Stage2In.duplicated_by # 0
  /\ Stage1In.duplicated_by # Stage2In.duplicated_by
  /\ Stage2In.properties.errors.status = 700
  /\ Stage2In.properties.errors.error_nstat1 = 0
  /\ Stage2Left.properties.errors.error_nstat1 = 2
  /\ Stage2Left.initial_geometries # Stage2In.initial_geometries
  /\ Stage1Left.properties.errors.status = 570
  /\ Stage1In.properties.errors.status = 0

(***************************************************************************)
(* Vocabulary of the properties of the pipeline.                           *)
(***************************************************************************)
\* What the calls so far left behind, the oldest first.
RECURSIVE Trail(_)
Trail(r) == IF r.prev = <<>> THEN <<r>> ELSE Trail(r.prev[1].ret) \o <<r>>
Calls == Trail(ret)
\* The calls so far are the given operations, in this order.
Ran(ops) ==
  /\ Len(Calls) = Len(ops)
  /\ \A k \in DOMAIN ops : Calls[k].op = ops[k]
\* The two records of the pair by provenance class, as they were handed in.
PairOf(source1, source2) ==
  /\ Len(inputs) = 2
  /\ {conformer_source(inputs[1]), conformer_source(inputs[2])} = {source1, source2}
PairStage1 == IF conformer_source(inputs[1]) = "STAGE1" THEN inputs[1] ELSE inputs[2]
PairStage2 == IF conformer_source(inputs[1]) = "STAGE2" THEN inputs[1] ELSE inputs[2]
\* The merge of a stage-1 and a stage-2 record, the latter of status 700 or
\* 800, has returned a record, and ops were then called on that record.
DiscardedThen(ops) ==
  /\ Ran(<<"merge_conformer">> \o ops)
  /\ PairOf("STAGE1", "STAGE2")
  /\ PairStage2.properties.errors.status \in {700, 800}
  /\ Calls[1].returned # 0
DiscardedStatus == IF PairStage2.properties.errors.status = 700 THEN 570 ELSE 580
DuplicateFates == {"FATE_DUPLICATE_SAME_TOPOLOGY", "FATE_DUPLICATE_DIFFERENT_TOPOLOGY"}

(***************************************************************************)
(* C26: after a STAGE1+STAGE2 merge in which the stage-2 status is 700 or  *)
(* 800, the returned record is the stage-1 record (it still classifies as  *)
(* STAGE1), its which_database is COMPLETE and its status is 570 or 580    *)
(* respectively; a following clean_up_error_codes leaves that status       *)
(* unchanged, and determine_fate then returns DISCARDED_OTHER when         *)
(* duplicated_by is 0 and a duplicate fate when duplicated_by > 0; such a  *)
(* record is never eligible for topology detection and never included in   *)
(* the standard tier.                                                      *)
(***************************************************************************)
C26_DiscardedStage2FallsBackToStage1 ==
  /\ DiscardedThen(<<>>) =>
       /\ inputs[ret.returned] = PairStage1
       /\ conformer_source(Returned) = "STAGE1"
       /\ Returned.which_database = "COMPLETE"
       /\ Returned.properties.errors.status = DiscardedStatus
  /\ DiscardedThen(<<"clean_up_error_codes">>) =>
       /\ ret.raised = ""
       /\ conformer_source(Out) = "STAGE1"
       /\ Out.which_database = "COMPLETE"
       /\ Out.properties.errors.status = DiscardedStatus
       /\ Out.properties.errors.status = Between.properties.errors.status
  /\ DiscardedThen(<<"clean_up_error_codes", "determine_fate">>) =>
       /\ ret.raised = ""
       /\ Out.duplicated_by = 0 => ret.fate = "FATE_DISCARDED_OTHER"
       /\ Out.duplicated_by > 0 => ret.fate \in DuplicateFates
  /\ DiscardedThen(<<"clean_up_error_codes", "conformer_eligible_for_topology_detection">>) =>
       ret.eligible = FALSE
  /\ DiscardedThen(<<"clean_up_error_codes", "should_include_in_standard">>) =>
       (ret.raised = "" /\ ret.include = FALSE)

C26_Witness_Status800ThenDiscardedOther ==
  /\ DiscardedThen(<<"clean_up_error_codes", "determine_fate">>)
  /\ PairStage2.properties.errors.status = 800
  /\ PairStage2.which_database = "STANDARD"
  /\ PairStage1.properties.errors.error_nstat1 = 5
  /\ Out.duplicated_by = 0
  /\ Out.properties.errors.status = 580
  /\ ret.fate = "FATE_DISCARDED_OTHER"

(***************************************************************************)
(* C27: conformer_to_bond_topology_summaries fails when the conformer's    *)
(* fate is FATE_UNDEFINED and for no other fate that determine_fate can    *)
(* return: determine_fate never returns FATE_UNDEFINED or                  *)
(* FATE_FORCE_CONSTANT_FAILURE for a STAGE1 or STAGE2 record, so for every *)
(* STAGE1 or STAGE2 record whose fate was assigned from determine_fate     *)
(* after merge and normalization the summaries are produced without        *)
(* failure; only a DUPLICATE-only record reaches the failure.              *)
(***************************************************************************)
FateAssigned == AfterCall("conformer_to_bond_topology_summaries", "assign_fate")

C27_SummariesFailOnlyOnUndefinedFate ==
  /\ Summarized => (ret.raised # "" <=> Before.fate = "FATE_UNDEFINED")
  /\ (pc \in {"determine_fate", "assign_fate"}
        /\ conformer_source(Before) \in {"STAGE1", "STAGE2"}) =>
       /\ ret.raised = ""
       /\ ret.fate \in FateCategory \ {"FATE_UNDEFINED"}
       /\ pc = "assign_fate" => Out.fate = ret.fate
  /\ (FateAssigned /\ conformer_source(Before) \in {"STAGE1", "STAGE2"}) =>
       /\ ret.raised = ""
       /\ Before.fate = ret.prev[1].ret.fate
       /\ ret.yielded # <<>>
  /\ (FateAssigned /\ ret.raised # "") =>
       /\ conformer_source(Before) = "DUPLICATE"
       /\ ret.raised = "ValueError"
       /\ ret.yielded = <<>>

C27_Witness_MergedNormalizedSummarized ==
  /\ Ran(<<"merge_conformer", "clean_up_error_codes", "assign_fate",
           "conformer_to_bond_topology_summaries">>)
  /\ PairOf("STAGE1", "STAGE2")
  /\ conformer_source(Before) = "STAGE2"
  /\ Before.fate = "FATE_CALCULATION_WITH_WARNING_SERIOUS"
  /\ ret.raised = ""
  /\ Len(ret.yielded) = 1
  /\ ret.yielded[1].count_calculation_with_warning = 1

(***************************************************************************)
(* C24: merging is order-independent for the partial records of one id:    *)
(* for one DUPLICATE, one STAGE1 and one STAGE2 record with the same       *)
(* conformer_id, every merge order (any two merged first, in either        *)
(* argument order, then the result merged with the third) either fails in  *)
(* all orders or succeeds in all orders with the same final record up to   *)
(* the order of duplicate_of, the same provenance class of the final       *)
(* record, and the same verdict on whether a conflict report was produced  *)
(* at some step.                                                           *)
(***************************************************************************)
\* What merging first with second, and what is returned with third, gives.
TwoMerges(first, second, third) ==
  LET m1 == merge_conformer(first, second)
  IN  IF m1.raised # ""
      THEN [failed |-> TRUE, final |-> first, conflict |-> FALSE]
      ELSE LET m2 == merge_conformer(IF m1.returned = 1 THEN m1.first ELSE m1.second, third)
           IN  IF m2.raised # ""
               THEN [failed |-> TRUE, final |-> first, conflict |-> FALSE]
               ELSE [failed |-> FALSE,
                     final |-> IF m2.returned = 1 THEN m2.first ELSE m2.second,
                     conflict |-> ~IsNone(m1.conflict) \/ ~IsNone(m2.conflict)]

\* The order every other order is compared with: the DUPLICATE record with
\* the stage-1 record, then with the stage-2 record.
Reference == TwoMerges(inputs[1], inputs[2], inputs[3])

ThreeOfOneId ==
  /\ Len(inputs) = 3
  /\ conformer_source(inputs[1]) = "DUPLICATE"
  /\ conformer_source(inputs[2]) = "STAGE1"
  /\ conformer_source(inputs[3]) = "STAGE2"
  /\ inputs[1].conformer_id = inputs[2].conformer_id
  /\ inputs[2].conformer_id = inputs[3].conformer_id
FirstMerge == Merged /\ ret.prev = <<>>
SecondMerge == Merged /\ ret.prev # <<>>

SameUpToDuplicateOfOrder(c1, c2) ==
  /\ [c1 EXCEPT !.duplicate_of = <<>>] = [c2 EXCEPT !.duplicate_of = <<>>]
  /\ Len(c1.duplicate_of) = Len(c2.duplicate_of)
  /\ \A id \in Range(c1.duplicate_of) \cup Range(c2.duplicate_of) :
       Cardinality({k \in DOMAIN c1.duplicate_of : c1.duplicate_of[k] = id})
         = Cardinality({k \in DOMAIN c2.duplicate_of : c2.duplicate_of[k] = id})

====
